---- MODULE Spec2Model ----
(***************************************************************************)
(* Model of the opportunity DAO (MongoOpportunity, dao.py): the collection *)
(* of opportunity documents, the update engine update_opportunity and the  *)
(* operations built on it (attachments, reporting period).                 *)
(*                                                                         *)
(* A document is a record (a Python dict); a patch (the kwargs) is a       *)
(* function from the field names it carries to their values.  Time is      *)
(* counted in months since January 2020, which is what reporting_period    *)
(* reads of a datetime (its year and its month).                           *)
(***************************************************************************)
EXTENDS Integers, Sequences, FiniteSets, TLC

VARIABLES
    store,      \* the opportunity collection: document id -> document
    now,        \* the clock read by datetime.utcnow()
    nextOid,    \* number of ObjectId()s allocated for attachments
    inserted,   \* number of opportunities add_opportunity has inserted
    ever,       \* history: the statuses opportunity OppId has had so far
    last,       \* history: the last call, its arguments, outcome and events
    calls,      \* the update_opportunity calls running concurrently, by caller
    writes,     \* number of store writes made by those calls
    request,    \* the arguments of the read (query) being served
    response    \* what the read has returned so far

vars == <<store, now, nextOid, inserted, ever, last, calls, writes, request, response>>
idVars == <<nextOid, inserted>>
raceVars == <<calls, writes>>
readVars == <<request, response>>

----------------------------------------------------------------------------
(* Bounds of the model *)

MaxClock == 1          \* number of clock ticks
ClockStep == 5         \* months that pass in one clock tick
MaxAttachments == 2    \* add_attachment calls
MaxWrites == 3         \* store writes made by concurrent update_opportunity calls
MaxOpportunities == 2  \* add_opportunity calls that insert
FewOpportunities == 1  \* the same where the calls on one opportunity are studied

----------------------------------------------------------------------------
(* Values *)

NoTime == -1           \* status_date_change=None
NoFields == [f \in {} |-> 0]          \* {} : the empty dict / empty kwargs
None == [none |-> TRUE]               \* None, where a dict is expected

\* the clock as one call of update_opportunity reads it: utcnow() for the
\* transition stamp, for the year and for the month of the default reporting
\* period, and for updated.  Still(t): the clock stands at t during the call
Still(t) == << t, t, t, t >>

FRESH == "FRESH"
DESK == "DESK"
FI == "FI"
PENDING == "PENDING"
Statuses == {FRESH, DESK, FI, PENDING}

AssigneeRoles ==
    {"sales_reps", "sales_managers", "customer_reps", "bdc_reps", "finance_managers"}

\* the ObjectId()s of the opportunities, in the order add_opportunity inserts
\* them: each insert gets an id no document has had
OpportunityIds == << "o1", "o2", "o3", "o4" >>

OppId == OpportunityIds[1]    \* the opportunity inserted first
UnknownId == "o9"             \* an id no opportunity gets

\* Opportunity.status_name: the display name of a status
status_name(status) ==
    CASE status = FRESH -> "Fresh"
      [] status = DESK -> "Desk"
      [] status = FI -> "F&I"
      [] status = PENDING -> "Pending"
      [] OTHER -> "Unknown"

YearOf(t) == 2020 + (t \div 12)
MonthOf(t) == (t % 12) + 1

\* helper.reporting_period(year, month): the derived triple
reporting_period(year, month) ==
    [year |-> year, month |-> month, quarter |-> ((month - 1) \div 3) + 1]

\* dict(a, b) and a.update(b): the keys of b win
DictUpdate(a, b) ==
    [f \in DOMAIN a \cup DOMAIN b |-> IF f \in DOMAIN b THEN b[f] ELSE a[f]]

Without(d, key) == [f \in DOMAIN d \ {key} |-> d[f]]

\* d.get(key)
Get(d, key) == IF key \in DOMAIN d THEN d[key] ELSE None

\* d.get(key) is truthy, for a string-valued key
HasText(d, key) == key \in DOMAIN d /\ d[key] # ""

\* helper.dictdelta(before, after): the fields of after that differ from before
dictdelta(before, after) ==
    [f \in {g \in DOMAIN after : g \notin DOMAIN before \/ before[g] # after[g]} |->
        [old |-> IF f \in DOMAIN before THEN <<before[f]>> ELSE <<>>, new |-> after[f]]]

----------------------------------------------------------------------------
(* add_opportunity *)

OPPORTUNITY_DEFAULTS ==
    [ name |-> "",
      customer_name |-> "",
      customer_id |-> None,
      customer_keywords |-> <<>>,
      status |-> FRESH,
      last_status_change |-> NoFields,
      sub_status |-> "",
      lost_reason |-> "",
      creator |-> "",
      stock_type |-> "",
      primary_pitch_id |-> "",
      sales_managers |-> <<>>,
      sales_reps |-> <<>>,
      customer_reps |-> <<>>,
      bdc_reps |-> <<>>,
      finance_managers |-> <<>>,
      pitches |-> <<>>,
      leads |-> <<>>,
      crm_lead_ids |-> <<>>,
      appraisals |-> <<>>,
      credit_applications |-> <<>>,
      updated |-> NoTime,
      created |-> NoTime,
      reporting_period |-> None,
      dms_deal |-> NoFields,
      preferences |->
        [vehicle_color |-> <<>>, vehicle_type |-> <<>>, vehicle_style |-> <<>>,
         passenger_count_upper |-> 0, passenger_count_lower |-> 0,
         vehicle_features |-> NoFields, vehicle_features_extra |-> <<>>,
         vehicle_preference_questionnaire |-> NoFields, preferred_vehicles |-> <<>>],
      marketing |->
        [lead_direction |-> "", lead_channel |-> "", lead_source |-> "",
         campaign_medium |-> "", campaign_source |-> "", campaign_name |-> ""],
      accounting_deal |->
        [frontend_gross |-> NoFields, backend_gross |-> NoFields, comment |-> NoFields],
      sales_deal |->
        [frontend_gross |-> NoFields, backend_gross |-> NoFields, comment |-> NoFields],
      attachments |-> <<>>,
      gocard_referral |-> NoFields,
      rdr_punch |-> NoFields,
      finance_checklist |-> NoFields,
      accounting_checklist |-> NoFields,
      extra_checklist |-> NoFields,
      organization_id |-> "",
      alert_types |-> <<>>,
      test_drive_number |-> 0 ]

\* the document add_opportunity builds from its kwargs at time t; oid is the
\* fresh ObjectId().  Supplied preferences are merged over the default ones
NewOpportunity(oid, kwargs, t) ==
    LET opportunity == DictUpdate(DictUpdate(OPPORTUNITY_DEFAULTS, kwargs), [_id |-> oid])
    IN  [opportunity EXCEPT
            !.created = t,
            !.updated = t,
            !.reporting_period = reporting_period(YearOf(t), MonthOf(t)),
            !.last_status_change = DictUpdate(@, (opportunity.status :> t)),
            !.preferences = IF "preferences" \in DOMAIN kwargs /\ kwargs.preferences # None
                            THEN DictUpdate(OPPORTUNITY_DEFAULTS.preferences,
                                            kwargs.preferences)
                            ELSE @]

\* variant: only the organization is required
CreateRejectedOrganizationOnly(kwargs) == ~HasText(kwargs, "organization_id")

\* the two TypeError guards of add_opportunity
CreateRejected(kwargs) ==
    \/ ~HasText(kwargs, "organization_id")
    \/ ~("dealer_id" \in DOMAIN kwargs /\ kwargs.dealer_id # 0)

----------------------------------------------------------------------------
(* update_opportunity(id, status_date_change=None, **kwargs), step by step *)

\* variant: only the id is checked
ValidArgumentsIdOnly(id, kwargs) == id # ""

\* "if id and kwargs"
ValidArguments(id, kwargs) == id # "" /\ DOMAIN kwargs # {}

\* variant: every patch that carries a status is a transition
StatusChangingAnyStatus(opportunity, kwargs) == "status" \in DOMAIN kwargs

\* the status is changing: kwargs carries a status other than the loaded one
StatusChanging(opportunity, kwargs) ==
    "status" \in DOMAIN kwargs /\ kwargs.status # opportunity.status

\* variant: the supplied date is ignored
TransitionTimeClockOnly(status_date_change, t) == t

\* status_date_change, or utcnow() when it is None
TransitionTime(status_date_change, t) ==
    IF status_date_change = NoTime THEN t ELSE status_date_change

\* variant: the history is rebuilt from the new status alone
StampStatusReset(last_status_change, status, when) == (status :> when)

\* last_status_change[str(status)] = status_date_change
StampStatus(last_status_change, status, when) ==
    DictUpdate(last_status_change, (status :> when))

\* variant: the FI date is filled on every entry into PENDING
BackfillFIAlways(last_status_change, status, when) ==
    IF status = PENDING
    THEN DictUpdate(last_status_change, (FI :> when))
    ELSE last_status_change

\* entering PENDING with no FI date fills the FI date with the PENDING date
BackfillFI(last_status_change, status, when) ==
    IF status = PENDING /\ FI \notin DOMAIN last_status_change
    THEN DictUpdate(last_status_change, (FI :> when))
    ELSE last_status_change

\* kwargs.get('reporting_period') is not None
HasReportingPeriod(kwargs) ==
    "reporting_period" \in DOMAIN kwargs /\ kwargs.reporting_period # None

\* a status change whose kwargs.get('reporting_period') is None puts the
\* clock's period into kwargs: the year of one utcnow(), the month of the next
DefaultReportingPeriod(kwargs, t_year, t_month) ==
    IF HasReportingPeriod(kwargs)
    THEN kwargs
    ELSE DictUpdate(kwargs,
            [reporting_period |-> reporting_period(YearOf(t_year), MonthOf(t_month))])

\* variant: the signal is sent whenever the patch names an assignment field
AssignmentEventsAnyKey(opportunity, kwargs) ==
    LET assignee_keys == DOMAIN kwargs \cap AssigneeRoles
    IN  IF assignee_keys # {}
        THEN << [name |-> "opportunity_assignment",
                 opportunity |-> opportunity,
                 field |-> [k \in assignee_keys |-> kwargs[k]]] >>
        ELSE << >>

\* the signal opportunity_assignment: sent iff exactly one assignee key
AssignmentEvents(opportunity, kwargs) ==
    LET assignee_keys == DOMAIN kwargs \cap AssigneeRoles
    IN  IF Cardinality(assignee_keys) = 1
        THEN << [name |-> "opportunity_assignment",
                 opportunity |-> opportunity,
                 field |-> [k \in assignee_keys |-> kwargs[k]]] >>
        ELSE << >>

\* variant: the lock looks for the deal number in the patch, not in the entity
DealerLockedByPatch(opportunity, kwargs) ==
    /\ "dealer_id" \in DOMAIN kwargs
    /\ HasText(kwargs, "deal_number")
    /\ kwargs.dealer_id # opportunity.dealer_id

\* the dealer may change only while no DMS deal number is assigned
DealerLocked(opportunity, kwargs) ==
    /\ "dealer_id" \in DOMAIN kwargs
    /\ HasText(opportunity.dms_deal, "deal_number")
    /\ kwargs.dealer_id # opportunity.dealer_id

\* kwargs.pop('deal_number', None); None and '' are both falsy
PoppedDealNumber(kwargs) ==
    IF "deal_number" \in DOMAIN kwargs THEN kwargs.deal_number ELSE ""

\* variant: the comparison is inverted
DealNumberConflictInverted(dms_deal, deal_number) ==
    HasText(dms_deal, "deal_number") /\ dms_deal.deal_number = deal_number

\* an existing deal number that differs from the new one
DealNumberConflict(dms_deal, deal_number) ==
    HasText(dms_deal, "deal_number") /\ dms_deal.deal_number # deal_number

\* dms_deal['deal_number'] = deal_number
SetDealNumber(opportunity, deal_number) ==
    [opportunity EXCEPT !.dms_deal = DictUpdate(@, [deal_number |-> deal_number])]

\* "if kwargs.get('reporting_period')": the derived triple of its year and month
ApplyReportingPeriod(opportunity, kwargs) ==
    IF /\ "reporting_period" \in DOMAIN kwargs
       /\ kwargs.reporting_period # None
       /\ DOMAIN kwargs.reporting_period # {}
    THEN [opportunity EXCEPT !.reporting_period =
            reporting_period(kwargs.reporting_period.year, kwargs.reporting_period.month)]
    ELSE opportunity

\* kwargs.get('updated') is truthy
HasUpdated(kwargs) == "updated" \in DOMAIN kwargs /\ kwargs.updated # NoTime

\* "if not kwargs.get('updated')": stamp updated with the clock
StampUpdated(opportunity, kwargs, t) ==
    IF HasUpdated(kwargs)
    THEN opportunity
    ELSE [opportunity EXCEPT !.updated = t]

\* variant: a dms_deal of the patch is merged into the stored one
MergeKwargsNested(opportunity, kwargs) ==
    DictUpdate(opportunity,
        [f \in DOMAIN kwargs |->
            IF f = "dms_deal" THEN DictUpdate(opportunity.dms_deal, kwargs.dms_deal)
            ELSE kwargs[f]])

\* opportunity.update(kwargs)
MergeKwargs(opportunity, kwargs) == DictUpdate(opportunity, kwargs)

\* opportunities.update(match, {"$set": dict(opportunity)}): sets every field of
\* opportunity on the document matching id, if there is one
StoreSet(docs, id, opportunity) ==
    IF id \in DOMAIN docs
    THEN [docs EXCEPT ![id] = DictUpdate(@, opportunity)]
    ELSE docs

\* variant: the status signal is sent first and on every update that names a
\* status
StatusEventFirst(opportunity, delta, updated_status, old_status_name, old_sub_status) ==
    (IF updated_status \/ "status" \in DOMAIN delta
        THEN << [name |-> "opportunity_status_updated", opportunity |-> opportunity,
                 old_opportunity_status_name |-> old_status_name] >>
        ELSE << >>)
    \o << [name |-> "opportunity_updated", opportunity |-> opportunity, delta |-> delta] >>
    \o (IF old_sub_status # opportunity.sub_status
        THEN << [name |-> "opportunity_sub_status_updated", opportunity |-> opportunity] >>
        ELSE << >>)

\* the signals sent after the store write
LifecycleEvents(opportunity, delta, updated_status, old_status_name, old_sub_status) ==
    << [name |-> "opportunity_updated", opportunity |-> opportunity, delta |-> delta] >>
    \o (IF updated_status
        THEN << [name |-> "opportunity_status_updated", opportunity |-> opportunity,
                 old_opportunity_status_name |-> old_status_name] >>
        ELSE << >>)
    \o (IF old_sub_status # opportunity.sub_status
        THEN << [name |-> "opportunity_sub_status_updated", opportunity |-> opportunity] >>
        ELSE << >>)

\* outcome of a call that raised: nothing written
Raised(docs, error, events) ==
    [ok |-> FALSE, error |-> error, docs |-> docs, wrote |-> FALSE, events |-> events,
     returned |-> << >>]

\* outcome of a call that returned
Returned(docs, wrote, events, returned) ==
    [ok |-> TRUE, error |-> "", docs |-> docs, wrote |-> wrote, events |-> events,
     returned |-> returned]

\* variant: the entity as changed so far is written before the raise
DiscardedWritten(docs, id, opportunity) == StoreSet(docs, id, opportunity)

\* the collection when update_opportunity raises: the loaded entity, changed in
\* place so far, is dropped before the store write
Discarded(docs, id, opportunity) == docs

\* add_opportunity(**kwargs) at time t; oid is the fresh ObjectId().  The guards
\* raise before the insert
add_opportunity(docs, oid, kwargs, t) ==
    LET opportunity == NewOpportunity(oid, kwargs, t)
    IN  IF CreateRejected(kwargs)
        THEN Raised(docs, "TypeError", << >>)
        ELSE Returned(docs @@ (oid :> opportunity), TRUE,
                << [name |-> "opportunity_created", opportunity |-> opportunity] >>,
                << opportunity >>)

\* a step at which update_opportunity ends: its outcome, or, when only the
\* clock reads are counted, the number of utcnow() calls made up to there
Ends(counting, taken, result) == IF counting THEN taken ELSE result

\* the whole of update_opportunity on collection docs; reads are the values
\* the utcnow() calls of the call give, one after the other: up to four, one
\* for the transition time when none is supplied, two for the year and the
\* month of the default reporting period, one for updated
UpdateRun(docs, id, status_date_change, kwargs, reads, counting) ==
    IF ~ValidArguments(id, kwargs)
    THEN Ends(counting, 0, Raised(docs, "No data provided, or invalid arguments", << >>))
    ELSE IF id \notin DOMAIN docs
    THEN Ends(counting, 0, Raised(docs, "AttributeError: NoneType", << >>))
    ELSE
    LET loaded == docs[id]
        updated_status == StatusChanging(loaded, kwargs)
        stamped == IF updated_status /\ status_date_change = NoTime THEN 1 ELSE 0
        kw1 == IF updated_status
               THEN DefaultReportingPeriod(kwargs, reads[stamped + 1], reads[stamped + 2])
               ELSE kwargs
        read == IF updated_status /\ ~HasReportingPeriod(kwargs) THEN stamped + 2
                ELSE stamped
        when == TransitionTime(status_date_change, reads[1])
        opp1 == IF updated_status
                THEN [loaded EXCEPT !.last_status_change =
                        BackfillFI(StampStatus(@, kwargs.status, when), kwargs.status, when)]
                ELSE loaded
        assignment == AssignmentEvents(opp1, kw1)
        deal_number == PoppedDealNumber(kw1)
        kw2 == Without(kw1, "deal_number")
    IN  IF DealerLocked(opp1, kw1)
        THEN Ends(counting, read,
                Raised(Discarded(docs, id, opp1),
                    "Cannot change dealer on an opportunity once it has a DMS deal number",
                    assignment))
        ELSE IF deal_number # "" /\ DealNumberConflict(opp1.dms_deal, deal_number)
        THEN Ends(counting, read,
                Raised(Discarded(docs, id, opp1),
                    "Opportunity already has a DMS deal number assigned!",
                    assignment))
        ELSE
        LET opp2 == IF deal_number # "" THEN SetDealNumber(opp1, deal_number) ELSE opp1
            opp3 == ApplyReportingPeriod(opp2, kw2)
            opp4 == StampUpdated(opp3, kw2, reads[read + 1])
            old_sub_status == opp4.sub_status
            delta == dictdelta(opp4, kw2)
            opp5 == MergeKwargs(opp4, kw2)
        IN  Ends(counting, IF HasUpdated(kw2) THEN read ELSE read + 1,
                Returned(StoreSet(docs, id, opp5), TRUE,
                    assignment \o LifecycleEvents(opp5, delta, updated_status,
                                                  status_name(loaded.status),
                                                  old_sub_status),
                    << opp5 >>))

update_opportunity(docs, id, status_date_change, kwargs, reads) ==
    UpdateRun(docs, id, status_date_change, kwargs, reads, FALSE)

\* the number of utcnow() calls update_opportunity makes
ReadsTaken(docs, id, status_date_change, kwargs) ==
    UpdateRun(docs, id, status_date_change, kwargs, Still(0), TRUE)

\* the signals update_opportunity sends
Signals ==
    {"opportunity_assignment", "opportunity_updated", "opportunity_status_updated",
     "opportunity_sub_status_updated"}

\* update_opportunity when a listener of the signal failing raises in send():
\* result is the outcome with well-behaved listeners.  No send() is guarded, so
\* the exception leaves update_opportunity at the first send of that signal:
\* opportunity_assignment is sent before the store write, the others after it
ListenerRaises(docs, result, failing) ==
    LET sent == result.events
        at == {i \in DOMAIN sent : sent[i].name = failing}
        first == CHOOSE i \in at : \A j \in at : i <= j
    IN  IF at = {}
        THEN result
        ELSE IF failing = "opportunity_assignment"
        THEN Raised(docs, "listener", SubSeq(sent, 1, first))
        ELSE [ok |-> FALSE, error |-> "listener", docs |-> result.docs,
              wrote |-> result.wrote, events |-> SubSeq(sent, 1, first),
              returned |-> << >>]

----------------------------------------------------------------------------
(* The operations built on update_opportunity *)

\* variant: the deal number is stored before the DMS is asked
edit_deal_numberStoreFirst(docs, id, deal_number, dms_ok, t) ==
    IF id \notin DOMAIN docs
    THEN Returned(docs, FALSE, << >>, << >>)
    ELSE LET dms_deal == [deal_number |-> deal_number]
             inner == update_opportunity(docs, id, NoTime, [dms_deal |-> dms_deal], Still(t))
         IN  IF ~dms_ok \/ ~inner.ok
             THEN Returned(inner.docs, inner.wrote, inner.events, << >>)
             ELSE Returned(inner.docs, inner.wrote, inner.events, << inner.docs[id] >>)

\* edit_deal_number(id, deal_number): dms_ok tells whether the call to the DMS
\* (dap.handle_vehicle_sale) returns; whatever is raised inside the try block
\* makes the method return None
edit_deal_number(docs, id, deal_number, dms_ok, t) ==
    IF id \notin DOMAIN docs \/ ~dms_ok
    THEN Returned(docs, FALSE, << >>, << >>)
    ELSE LET dms_deal == [deal_number |-> deal_number]
             opportunity == [docs[id] EXCEPT !.dms_deal = dms_deal]
             inner == update_opportunity(docs, id, NoTime, [dms_deal |-> dms_deal], Still(t))
         IN  IF ~inner.ok
             THEN Returned(inner.docs, inner.wrote, inner.events, << >>)
             ELSE Returned(inner.docs, inner.wrote,
                    inner.events \o
                        << [name |-> "opportunity_updated", opportunity |-> opportunity,
                            delta |-> [dms_deal |-> dms_deal]] >>,
                    << inner.docs[id] >>)

----------------------------------------------------------------------------
(* Strings the code takes apart.  Such a string is the sequence of its      *)
(* characters; the characters are the ASCII letters, digits, marks and      *)
(* white space below, and no operator here has a value on any other one.    *)

Range(seq) == {seq[i] : i \in DOMAIN seq}

Capitals ==
    << "A", "B", "C", "D", "E", "F", "G", "H", "I", "J", "K", "L", "M",
       "N", "O", "P", "Q", "R", "S", "T", "U", "V", "W", "X", "Y", "Z" >>

Smalls ==
    << "a", "b", "c", "d", "e", "f", "g", "h", "i", "j", "k", "l", "m",
       "n", "o", "p", "q", "r", "s", "t", "u", "v", "w", "x", "y", "z" >>

Digits == {"0", "1", "2", "3", "4", "5", "6", "7", "8", "9"}

\* the marks a regular expression takes as they are
Marks ==
    {",", "@", "'", "\"", "-", "_", "#", "&", "/", ":", ";", "=", "!", "%", "~", "<", ">"}

\* the marks a regular expression gives a meaning to
Specials == {".", "^", "$", "*", "+", "?", "{", "}", "[", "]", "\\", "|", "(", ")"}

\* the white space str.strip() takes off
Whitespace == {" ", "\t", "\n", "\r", "\f"}

\* the characters that are no white space
Printing == Range(Capitals) \cup Range(Smalls) \cup Digits \cup Marks \cup Specials

\* the strings that occur, by their characters
Spelling ==
    ("" :> << >>)
    @@ ("c1" :> << "c", "1" >>)
    @@ ("c2" :> << "c", "2" >>)
    @@ ("c1,c2" :> << "c", "1", ",", "c", "2" >>)
    @@ ("c1," :> << "c", "1", "," >>)
    @@ ("bob" :> << "b", "o", "b" >>)
    @@ ("BO" :> << "B", "O" >>)
    @@ ("Bob" :> << "B", "o", "b" >>)
    @@ ("Lee" :> << "L", "e", "e" >>)
    @@ ("LEE" :> << "L", "E", "E" >>)
    @@ ("Bob Lee" :> << "B", "o", "b", " ", "L", "e", "e" >>)
    @@ ("bob lee" :> << "b", "o", "b", " ", "l", "e", "e" >>)
    @@ ("'bob lee'" :> << "'", "b", "o", "b", " ", "l", "e", "e", "'" >>)
    @@ ("\"bob lee\"" :> << "\"", "b", "o", "b", " ", "l", "e", "e", "\"" >>)
    @@ ("bob\\ lee" :> << "b", "o", "b", "\\", " ", "l", "e", "e" >>)
    @@ ("bob\tlee" :> << "b", "o", "b", "\t", "l", "e", "e" >>)
    @@ ("lee  bob" :> << "l", "e", "e", " ", " ", "b", "o", "b" >>)
    @@ ("O'Neil" :> << "O", "'", "N", "e", "i", "l" >>)
    @@ ("o'neil lee" :> << "o", "'", "n", "e", "i", "l", " ", "l", "e", "e" >>)
    @@ ("D100" :> << "D", "1", "0", "0" >>)
    @@ (" " :> << " " >>)
    @@ (" Lee" :> << " ", "L", "e", "e" >>)
    @@ ("b@c1" :> << "b", "@", "c", "1" >>)
    @@ ("NEW" :> << "N", "E", "W" >>)
    @@ ("New" :> << "N", "e", "w" >>)
    @@ ("new" :> << "n", "e", "w" >>)
    @@ ("USED" :> << "U", "S", "E", "D" >>)
    @@ ("Used" :> << "U", "s", "e", "d" >>)
    @@ ("used" :> << "u", "s", "e", "d" >>)
    @@ ("LEASE" :> << "L", "E", "A", "S", "E" >>)
    @@ ("lease" :> << "l", "e", "a", "s", "e" >>)
    @@ ("UNKNOWN" :> << "U", "N", "K", "N", "O", "W", "N" >>)
    @@ ("unknown" :> << "u", "n", "k", "n", "o", "w", "n" >>)
    @@ ("0" :> << "0" >>)
    @@ ("1" :> << "1" >>)
    @@ ("2" :> << "2" >>)
    @@ ("-1" :> << "-", "1" >>)
    @@ ("+ 2" :> << "+", " ", "2" >>)
    @@ ("10" :> << "1", "0" >>)
    @@ (" 20" :> << " ", "2", "0" >>)
    @@ ("ten" :> << "t", "e", "n" >>)

Chars(text) == Spelling[text]

\* the string that is spelled chars
TextOf(chars) == CHOOSE text \in DOMAIN Spelling : Spelling[text] = chars

\* the letter in lower case; any other character as it is
LowerOf(char) ==
    CASE char \in Range(Capitals) ->
            Smalls[CHOOSE k \in DOMAIN Capitals : Capitals[k] = char]
      [] char \in Range(Smalls) \cup Digits \cup Marks \cup Specials \cup Whitespace -> char

\* str.lower(), on the characters
Lower(chars) == [i \in DOMAIN chars |-> LowerOf(chars[i])]

\* text.lower()
lower(text) == TextOf(Lower(Chars(text)))

RECURSIVE LStrip(_)
\* str.lstrip(): the white space at the front is taken off
LStrip(chars) ==
    IF chars = << >>
    THEN chars
    ELSE CASE Head(chars) \in Whitespace -> LStrip(Tail(chars))
           [] Head(chars) \in Printing -> chars

RECURSIVE RStrip(_)
\* str.rstrip(): the white space at the end is taken off
RStrip(chars) ==
    IF chars = << >>
    THEN chars
    ELSE CASE chars[Len(chars)] \in Whitespace -> RStrip(SubSeq(chars, 1, Len(chars) - 1))
           [] chars[Len(chars)] \in Printing -> chars

\* text.strip()
Strip(text) == TextOf(RStrip(LStrip(Chars(text))))

\* the digits in the order of their values
DigitChars == << "0", "1", "2", "3", "4", "5", "6", "7", "8", "9" >>

RECURSIVE NumberOf(_)
\* the number a sequence of digits writes
NumberOf(digits) ==
    IF digits = << >>
    THEN 0
    ELSE 10 * NumberOf(SubSeq(digits, 1, Len(digits) - 1))
            + (CHOOSE k \in DOMAIN DigitChars : DigitChars[k] = digits[Len(digits)]) - 1

\* int(text): the white space around is dropped, a sign may lead, white
\* space may follow the sign, digits follow; the value in a one-element
\* sequence, none when int raises ValueError
IntOfChars(chars) ==
    LET stripped == RStrip(LStrip(chars))
        signed == stripped # << >> /\ Head(stripped) \in {"-", "+"}
        digits == IF signed THEN LStrip(Tail(stripped)) ELSE stripped
    IN  IF digits # << >> /\ \A i \in DOMAIN digits : digits[i] \in Digits
        THEN << IF signed /\ Head(stripped) = "-"
                THEN 0 - NumberOf(digits) ELSE NumberOf(digits) >>
        ELSE << >>

IntOfText(text) == IntOfChars(Chars(text))

RECURSIVE SplitFrom(_, _, _, _)
\* str.split(sep) from character i on, piece being the characters since the
\* last separator: every separator ends a piece, an empty one included
SplitFrom(chars, sep, i, piece) ==
    IF i > Len(chars)
    THEN << piece >>
    ELSE IF chars[i] = sep
    THEN << piece >> \o SplitFrom(chars, sep, i + 1, << >>)
    ELSE SplitFrom(chars, sep, i + 1, Append(piece, chars[i]))

\* text.split(sep), as sequences of characters
Split(chars, sep) == SplitFrom(chars, sep, 1, << >>)

\* shlex: the characters that part the tokens, the quotes, and the quote
\* within which the escape character escapes
ShlexWhitespace == {" ", "\t", "\r", "\n"}
ShlexQuotes == {"'", "\""}
ShlexEscapedQuotes == {"\""}

RECURSIVE ShlexFrom(_, _, _, _, _)
\* shlex.split (POSIX rules, no comments) from character i on.  state is " "
\* between tokens, "a" within one, a quote within a stretch that quote opened,
\* "\\" right after the escape character, escapedstate then being the state to
\* go back to; token holds the characters of the token begun.  A quote takes
\* its stretch literally and is itself dropped, the escape character keeps the
\* next character as it is; within a double quote it escapes only that quote
\* and itself, within a single quote nothing.  A quote left open or an escape
\* with nothing after it raises ValueError
ShlexFrom(chars, i, token, state, escapedstate) ==
    IF i > Len(chars)
    THEN IF state \in ShlexQuotes \cup {"\\"}
         THEN [ok |-> FALSE, tokens |-> << >>]
         ELSE [ok |-> TRUE, tokens |-> IF state = "a" THEN << token >> ELSE << >>]
    ELSE LET nextchar == chars[i]
         IN  IF state = "\\"
             THEN ShlexFrom(chars, i + 1,
                    (IF escapedstate \in ShlexQuotes /\ nextchar # "\\"
                            /\ nextchar # escapedstate
                     THEN Append(token, "\\") ELSE token) \o << nextchar >>,
                    escapedstate, escapedstate)
             ELSE IF state \in ShlexQuotes
             THEN IF nextchar = state
                  THEN ShlexFrom(chars, i + 1, token, "a", escapedstate)
                  ELSE IF nextchar = "\\" /\ state \in ShlexEscapedQuotes
                  THEN ShlexFrom(chars, i + 1, token, "\\", state)
                  ELSE ShlexFrom(chars, i + 1, Append(token, nextchar), state, escapedstate)
             ELSE IF nextchar \in ShlexWhitespace
             THEN LET rest == ShlexFrom(chars, i + 1, << >>, " ", escapedstate)
                  IN  IF state = "a" THEN [rest EXCEPT !.tokens = << token >> \o @]
                      ELSE rest
             ELSE IF nextchar \in ShlexQuotes
             THEN ShlexFrom(chars, i + 1, token, nextchar, escapedstate)
             ELSE IF nextchar = "\\"
             THEN ShlexFrom(chars, i + 1, token, "\\", "a")
             ELSE ShlexFrom(chars, i + 1, Append(token, nextchar), "a", escapedstate)

\* the terms of the 'keywords' filter: shlex.split(filter_value), or
\* filter_value.split(' ') when that raises ValueError
Terms(filter_value) ==
    LET split == ShlexFrom(Chars(filter_value), 1, << >>, " ", " ")
    IN  IF split.ok THEN split.tokens ELSE Split(Chars(filter_value), " ")

\* the pattern is taken letter by letter: no character of it is one a regular
\* expression gives a meaning to
Literal(term) == \A i \in DOMAIN term : term[i] \notin Specials

\* re.compile(term, re.IGNORECASE) finds a match somewhere in the string
Searches(term, chars) ==
    CASE Literal(term) ->
        \E k \in 0..(Len(chars) - Len(term)) :
            SubSeq(Lower(chars), k + 1, k + Len(term)) = Lower(term)

----------------------------------------------------------------------------
(* The deal data synced from the DMS *)

\* OpportunityStockTypeOptions
StockNEW == "new"
StockUSED == "used"
StockUNKNOWN == "unknown"
StockTypesALL == {StockNEW, StockUSED, StockUNKNOWN}

\* variant: the deal type is compared as the DMS spells it
StockTypeOfRaw(dms_deal) ==
    LET stock_type == IF "deal_type" \in DOMAIN dms_deal THEN dms_deal.deal_type ELSE ""
    IN  IF stock_type \notin StockTypesALL THEN StockUNKNOWN ELSE stock_type

\* the stock type update_dms_deal derives from the merged dms_deal
StockTypeOf(dms_deal) ==
    LET stock_type ==
            lower(IF "deal_type" \in DOMAIN dms_deal THEN dms_deal.deal_type ELSE "")
    IN  IF stock_type \notin StockTypesALL THEN StockUNKNOWN ELSE stock_type

\* update_dms_deal(id, deal_data)
update_dms_deal(docs, id, deal_data, t) ==
    IF id \notin DOMAIN docs
    THEN Raised(docs, "TypeError: NoneType", << >>)
    ELSE IF ~HasText(docs[id].dms_deal, "deal_number")
    THEN Raised(docs,
            "Cant update deal data because opportunity has no DMS deal number!", << >>)
    ELSE IF "deal_number" \in DOMAIN deal_data
    THEN Raised(docs, "AssertionError", << >>)
    ELSE LET dms_deal == DictUpdate(docs[id].dms_deal, deal_data)
             opportunity == [docs[id] EXCEPT !.dms_deal = dms_deal]
             inner == update_opportunity(docs, id, NoTime,
                        [dms_deal |-> dms_deal, stock_type |-> StockTypeOf(dms_deal)], Still(t))
         IN  IF ~inner.ok
             THEN inner
             ELSE Returned(inner.docs, inner.wrote,
                    inner.events \o
                        << [name |-> "opportunity_updated", opportunity |-> opportunity,
                            delta |-> [dms_deal |-> deal_data]] >>,
                    << opportunity >>)

\* set_reporting_period(opportunity_id, year, month)
set_reporting_period(docs, id, year, month, t) ==
    update_opportunity(docs, id, NoTime,
        [reporting_period |-> reporting_period(year, month)], Still(t))

\* the attachment add_attachment builds; oid is the fresh ObjectId()
NewAttachment(oid, kwargs, t) ==
    [_id |-> oid, attachment_type |-> kwargs.attachment_type, key |-> kwargs.key,
     label |-> Get(kwargs, "label"), created_by |-> Get(kwargs, "created_by"),
     created_by_name |-> Get(kwargs, "created_by_name"),
     file_hash |-> Get(kwargs, "file_hash"), file_size |-> Get(kwargs, "file_size"),
     content_type |-> Get(kwargs, "content_type"), file_tag |-> Get(kwargs, "file_tag"),
     date_created |-> t, deleted |-> FALSE]

\* variant: only the attachments are sent as the patch
AttachedEntityPatchOnly(loaded, oid, kwargs, t) ==
    [attachments |-> Append(loaded.attachments, NewAttachment(oid, kwargs, t))]

\* the entity add_attachment sends as the patch of update_opportunity: the whole
\* loaded entity with the new attachment appended
AttachedEntity(loaded, oid, kwargs, t) ==
    [loaded EXCEPT !.attachments = Append(@, NewAttachment(oid, kwargs, t))]

\* variant: the new attachment is put in front of the stored ones
add_attachmentPrepend(docs, id, oid, kwargs, t) ==
    IF id \notin DOMAIN docs
    THEN Returned(docs, FALSE, << >>, << >>)
    ELSE LET opportunity == [docs[id] EXCEPT
                                !.attachments = << NewAttachment(oid, kwargs, t) >> \o @]
             inner == update_opportunity(docs, id, NoTime, opportunity, Still(t))
         IN  IF inner.ok THEN [inner EXCEPT !.returned = << opportunity >>] ELSE inner

\* add_attachment: append to the loaded entity and send the whole entity as the
\* patch of update_opportunity; an absent opportunity is returned as None
add_attachment(docs, id, oid, kwargs, t) ==
    IF id \notin DOMAIN docs
    THEN Returned(docs, FALSE, << >>, << >>)
    ELSE LET opportunity == AttachedEntity(docs[id], oid, kwargs, t)
             inner == update_opportunity(docs, id, NoTime, opportunity, Still(t))
         IN  IF inner.ok THEN [inner EXCEPT !.returned = << opportunity >>] ELSE inner

\* the $elemMatch of modify_attachment: an attachment with this _id
HasAttachment(doc, attachment_id) ==
    \E i \in DOMAIN doc.attachments :
        /\ "_id" \in DOMAIN doc.attachments[i]
        /\ doc.attachments[i]._id = attachment_id

\* variant: every attachment is taken for the one looked for
AttachmentMatchesAny(attachment, attachment_id) == TRUE

\* attachment.get('_id') == attachment_id
AttachmentMatches(attachment, attachment_id) ==
    "_id" \in DOMAIN attachment /\ attachment._id = attachment_id

\* the loop of modify_attachment from attachment i on: at every attachment that
\* matches, kwargs is merged into it and update_opportunity is called with the
\* whole entity, as merged so far, as the patch; so is the outcome so far
RECURSIVE ModifyFrom(_, _, _, _, _, _, _)
ModifyFrom(so, id, opportunity, attachment_id, kwargs, t, i) ==
    IF i > Len(opportunity.attachments) \/ ~so.ok
    THEN so
    ELSE IF AttachmentMatches(opportunity.attachments[i], attachment_id)
    THEN LET merged == [opportunity EXCEPT !.attachments[i] = DictUpdate(@, kwargs)]
             inner == update_opportunity(so.docs, id, NoTime, merged, Still(t))
             next == [inner EXCEPT !.wrote = so.wrote \/ @,
                                   !.events = so.events \o @,
                                   !.returned = IF inner.ok THEN << merged >> ELSE @]
         IN  ModifyFrom(next, id, merged, attachment_id, kwargs, t, i + 1)
    ELSE ModifyFrom(so, id, opportunity, attachment_id, kwargs, t, i + 1)

\* modify_attachment: nothing is done when no attachment of the opportunity
\* has the _id; the loaded entity is returned
modify_attachment(docs, id, attachment_id, kwargs, t) ==
    IF id \notin DOMAIN docs \/ ~HasAttachment(docs[id], attachment_id)
    THEN Returned(docs, FALSE, << >>, << >>)
    ELSE ModifyFrom(Returned(docs, FALSE, << >>, << docs[id] >>), id, docs[id],
                    attachment_id, kwargs, t, 1)

\* variant: the attachment is taken out of the sequence
remove_attachmentPhysical(docs, id, attachment_id, t) ==
    IF id \notin DOMAIN docs \/ ~HasAttachment(docs[id], attachment_id)
    THEN Returned(docs, FALSE, << >>, << >>)
    ELSE LET Other(a) == ~("_id" \in DOMAIN a /\ a._id = attachment_id)
             opportunity == [docs[id] EXCEPT !.attachments = SelectSeq(@, Other)]
             inner == update_opportunity(docs, id, NoTime, opportunity, Still(t))
         IN  IF inner.ok THEN [inner EXCEPT !.returned = << opportunity >>] ELSE inner

\* remove_attachment: modify_attachment with deleted=True
remove_attachment(docs, id, attachment_id, t) ==
    modify_attachment(docs, id, attachment_id, [deleted |-> TRUE], t)

\* variant: the document stays in the collection
delete_opportunityKeep(docs, id) ==
    IF id \in DOMAIN docs
    THEN Returned(docs, FALSE,
            << [name |-> "opportunity_deleted", opportunity |-> docs[id]] >>, << TRUE >>)
    ELSE Returned(docs, FALSE, << >>, << FALSE >>)

\* delete_opportunity(id): delete_one on the loaded opportunity, then the signal
delete_opportunity(docs, id) ==
    IF id \in DOMAIN docs
    THEN Returned(Without(docs, id), TRUE,
            << [name |-> "opportunity_deleted", opportunity |-> docs[id]] >>, << TRUE >>)
    ELSE Returned(docs, FALSE, << >>, << FALSE >>)

\* variant: the supplied keys replace the stored preferences
update_preferencesReplace(docs, id, kwargs, t) ==
    IF id \notin DOMAIN docs
    THEN Returned(docs, FALSE, << >>, << >>)
    ELSE update_opportunity(docs, id, NoTime, [preferences |-> kwargs], Still(t))

\* update_preferences: set the supplied keys on the loaded preferences, or on
\* the default ones when the stored preferences are empty
update_preferences(docs, id, kwargs, t) ==
    IF id \notin DOMAIN docs
    THEN Returned(docs, FALSE, << >>, << >>)
    ELSE LET preferences == IF DOMAIN docs[id].preferences = {}
                            THEN OPPORTUNITY_DEFAULTS.preferences
                            ELSE docs[id].preferences
         IN  update_opportunity(docs, id, NoTime,
                [preferences |-> DictUpdate(preferences, kwargs)], Still(t))

\* update_marketing_data: set the supplied keys on the loaded marketing data
update_marketing_data(docs, id, kwargs, t) ==
    IF id \notin DOMAIN docs
    THEN Returned(docs, FALSE, << >>, << >>)
    ELSE update_opportunity(docs, id, NoTime,
            [marketing |-> DictUpdate(docs[id].marketing, kwargs)], Still(t))

\* variant: the stamped data[part] replaces the stored sub-object
MergedDealPartReplace(stored, data, part, t) ==
    IF part \in DOMAIN data /\ DOMAIN data[part] # {}
    THEN DictUpdate(data[part], [updated |-> t])
    ELSE stored[part]

\* one sub-object of a deal record after update_opportunity_deal_data: a truthy
\* data[part] is stamped and merged over the stored one
MergedDealPart(stored, data, part, t) ==
    IF part \in DOMAIN data /\ DOMAIN data[part] # {}
    THEN DictUpdate(IF part \in DOMAIN stored THEN stored[part] ELSE NoFields,
                    DictUpdate(data[part], [updated |-> t]))
    ELSE stored[part]

\* "if data.get(part)": data carries the sub-object, and not empty
Supplied(data, part) == part \in DOMAIN data /\ DOMAIN data[part] # {}

\* the sub-objects in the order the code goes through them
DealPartList == << "comment", "frontend_gross", "backend_gross" >>

\* which utcnow() call of the operation stamps the sub-object: each supplied
\* sub-object takes one, in the order of the code
PartRead(data, part) ==
    Cardinality({k \in DOMAIN DealPartList :
        /\ Supplied(data, DealPartList[k])
        /\ \A j \in DOMAIN DealPartList : DealPartList[j] = part => k <= j})

\* the number of utcnow() calls update_opportunity_deal_data makes
DealReadsTaken(docs, id, data, field_name) ==
    IF id # "" /\ DOMAIN data # {} /\ field_name \in {"sales_deal", "accounting_deal"}
          /\ id \in DOMAIN docs
    THEN Cardinality({k \in DOMAIN DealPartList : Supplied(data, DealPartList[k])})
    ELSE 0

\* update_opportunity_deal_data(id, data, field_name); reads are the values
\* the utcnow() calls of the call give, one after the other
update_opportunity_deal_data(docs, id, data, field_name, reads) ==
    IF ~(id # "" /\ DOMAIN data # {} /\ field_name \in {"sales_deal", "accounting_deal"})
    THEN Returned(docs, FALSE, << >>, << >>)
    ELSE IF id \notin DOMAIN docs
    THEN Raised(docs, "AttributeError: NoneType", << >>)
    ELSE
    LET opportunity == docs[id]
        stored == opportunity[field_name]
        updated_data ==
            [part \in DOMAIN stored \cup
                      {q \in {"comment", "frontend_gross", "backend_gross"} :
                            q \in DOMAIN data /\ DOMAIN data[q] # {}} |->
                IF part \in {"comment", "frontend_gross", "backend_gross"}
                THEN MergedDealPart(stored, data, part, reads[PartRead(data, part)])
                ELSE stored[part]]
    IN  IF DOMAIN updated_data = {}
        THEN Returned(docs, FALSE, << >>, << opportunity >>)
        ELSE LET patch == (field_name :> updated_data)
                 delta == dictdelta(opportunity, patch)
                 after == DictUpdate(opportunity, patch)
             IN  Returned(StoreSet(docs, id, after), TRUE,
                    << [name |-> "opportunity_updated", opportunity |-> after,
                        delta |-> delta] >>,
                    << after >>)

----------------------------------------------------------------------------
(* make_query(filters): the filter specification compiled to a store query. *)
(* A query is {} (no key) or {'$and': [clause, ...]}; a clause names a      *)
(* document field by its path and an operator of the store.                 *)

\* {field: {'$in': values}}
In(field, values) == [op |-> "$in", field |-> field, values |-> values]
\* {field: {'$size': n}}
Size(field, n) == [op |-> "$size", field |-> field, n |-> n]
\* {field: value}
Eq(field, value) == [op |-> "$eq", field |-> field, value |-> value]
\* {'field.index': {'$exists': flag}}
Exists(field, index, flag) ==
    [op |-> "$exists", field |-> field, index |-> index, flag |-> flag]
\* {field: {'$gt': value}} and {field: {'$lt': value}}
Gt(field, value) == [op |-> "$gt", field |-> field, value |-> value]
Lt(field, value) == [op |-> "$lt", field |-> field, value |-> value]
\* {field: date_filter}, date_filter holding '$gte' and '$lte' bounds; with
\* no bound it is {field: {}}, which asks for the empty document as the value
\* and so holds of no date
Within(field, date_filter) == [op |-> "$within", field |-> field, bounds |-> date_filter]
\* {field: {'$in': patterns}}, the values being compiled regular expressions
InPatterns(field, patterns) == [op |-> "$in/re", field |-> field, patterns |-> patterns]
\* {'$and': clauses} and {'$or': clauses}
And(clauses) == [op |-> "$and", clauses |-> clauses]
Or(clauses) == [op |-> "$or", clauses |-> clauses]

\* a dict whose order matters is the sequence of its (key, value) pairs:
\* filters.items() of the dict filters when it gives its keys in the order keys
Items(filters, keys) == [k \in DOMAIN keys |-> << keys[k], filters[keys[k]] >>]

\* the strings ObjectId() accepts: those that stand for 24 hexadecimal digits
ObjectIdTexts == {"c1", "c2"}

\* ObjectId(text)
ObjectId(text) == [oid |-> text]

\* the customer ids of the 'customer_ids' filter as strings: a string is split
\* at its commas, a list is taken as it is.  A list holds the ids as strings:
\* ObjectId() of an ObjectId is the ObjectId of its string
CustomerIdTexts(filter_value) ==
    IF "basestring" \in DOMAIN filter_value
    THEN Split(Chars(filter_value.basestring), ",")
    ELSE LET ids == filter_value.list IN [i \in DOMAIN ids |-> Chars(ids[i])]

\* ObjectId() raises InvalidId on one of the customer ids
InvalidCustomerId(filter_value) ==
    \E i \in DOMAIN CustomerIdTexts(filter_value) :
        \A text \in ObjectIdTexts : Chars(text) # CustomerIdTexts(filter_value)[i]

\* map(ObjectId, customer_ids)
CustomerObjectIds(filter_value) ==
    LET texts == CustomerIdTexts(filter_value)
    IN  [i \in DOMAIN texts |->
            ObjectId(CHOOSE text \in ObjectIdTexts : Chars(text) = texts[i])]

\* the filter types make_query acts on
FilterTypes ==
    { "ids", "statuses", "status_date", "assignees", "bdc_assignees", "created",
      "updated", "dealer_ids", "organization_id", "customer_ids", "lead_source",
      "lead_channel", "lead_direction", "sub_status", "keywords", "assigned_to_bdc",
      "reporting_period", "stock_type", "created_by", "pitches", "leads",
      "crm_lead_ids", "credit_applications" }

\* OpportunityModel.STATUS.ALL, in the order the model lists the statuses
StatusList == << FRESH, DESK, FI, PENDING >>

\* helper.get_date_filter(start_date, end_date): both bounds are inclusive, a
\* bound that is None is left out
get_date_filter(start_date, end_date) ==
    [b \in (IF start_date = NoTime THEN {} ELSE {"$gte"})
            \cup (IF end_date = NoTime THEN {} ELSE {"$lte"}) |->
        IF b = "$gte" THEN start_date ELSE end_date]

\* filter_value.get(key) of a date range
DateOf(filter_value, key) ==
    IF key \in DOMAIN filter_value THEN filter_value[key] ELSE NoTime

\* variant: the date of any status is looked at, whatever the current status
StatusDateClauseAnyStatus(filter_value) ==
    LET date_filter == get_date_filter(DateOf(filter_value, "date_from"),
                                       DateOf(filter_value, "date_to"))
    IN  Or([i \in DOMAIN StatusList |->
                Within(<<"last_status_change", StatusList[i]>>, date_filter)])

\* the clause of the 'status_date' filter: for some status, the opportunity is
\* in it and its last_status_change of that status is in the range
StatusDateClause(filter_value) ==
    LET date_filter == get_date_filter(DateOf(filter_value, "date_from"),
                                       DateOf(filter_value, "date_to"))
    IN  Or([i \in DOMAIN StatusList |->
                And(<< Eq(<<"status">>, StatusList[i]),
                       Within(<<"last_status_change", StatusList[i]>>, date_filter) >>)])

\* the clause of the 'assignees' filter
AssigneesClause(filter_value) ==
    IF "unassigned" \in Range(filter_value)
    THEN And(<< Size(<<"sales_reps">>, 0), Size(<<"customer_reps">>, 0),
                Size(<<"sales_managers">>, 0) >>)
    ELSE Or(<< In(<<"sales_managers">>, filter_value), In(<<"sales_reps">>, filter_value),
               In(<<"customer_reps">>, filter_value), In(<<"bdc_reps">>, filter_value),
               In(<<"finance_managers">>, filter_value) >>)

\* the clause of the 'created' and 'updated' filters
DateClause(field, filter_value) ==
    Within(<< field >>, get_date_filter(DateOf(filter_value, "date_from"),
                                        DateOf(filter_value, "date_to")))

\* the clause of the 'keywords' filter: a keyword of the customer that a term
\* is found in, or the deal number spelled as the filter value; the terms are
\* patterns taken letter by letter
KeywordsClause(filter_value) ==
    Or(<< InPatterns(<<"customer_keywords">>, Terms(filter_value)),
          Eq(<<"dms_deal", "deal_number">>, filter_value) >>)

\* the clauses one filter appends to qry['$and']; an unknown filter type
\* appends none
ClausesOf(filter_type, filter_value) ==
    CASE filter_type = "ids" -> << In(<<"_id">>, filter_value) >>
      [] filter_type = "statuses" -> << In(<<"status">>, filter_value) >>
      [] filter_type = "assignees" -> << AssigneesClause(filter_value) >>
      [] filter_type = "bdc_assignees" ->
            IF "unassigned" \in Range(filter_value)
            THEN << Size(<<"bdc_reps">>, 0) >>
            ELSE << In(<<"bdc_reps">>, filter_value) >>
      [] filter_type = "dealer_ids" -> << In(<<"dealer_id">>, filter_value) >>
      [] filter_type = "organization_id" -> << Eq(<<"organization_id">>, filter_value) >>
      [] filter_type = "sub_status" -> << Eq(<<"sub_status">>, filter_value) >>
      [] filter_type = "assigned_to_bdc" -> << Exists(<<"bdc_reps">>, 1, filter_value) >>
      [] filter_type = "reporting_period" ->
            (IF "year" \in DOMAIN filter_value
             THEN << Eq(<<"reporting_period", "year">>, filter_value.year) >> ELSE << >>)
            \o (IF "month" \in DOMAIN filter_value
                THEN << Eq(<<"reporting_period", "month">>, filter_value.month) >> ELSE << >>)
            \o (IF "quarter" \in DOMAIN filter_value
                THEN << Eq(<<"reporting_period", "quarter">>, filter_value.quarter) >>
                ELSE << >>)
      [] filter_type = "stock_type" -> << Eq(<<"stock_type">>, filter_value) >>
      [] filter_type = "status_date" -> << StatusDateClause(filter_value) >>
      [] filter_type = "created" -> << DateClause("created", filter_value) >>
      [] filter_type = "updated" -> << DateClause("updated", filter_value) >>
      [] filter_type = "customer_ids" ->
            << In(<<"customer_id">>, CustomerObjectIds(filter_value)) >>
      [] filter_type \in {"lead_source", "lead_channel", "lead_direction"} ->
            << Eq(<<"marketing", filter_type>>, filter_value) >>
      [] filter_type = "keywords" -> << KeywordsClause(filter_value) >>
      [] filter_type = "created_by" -> << In(<<"creator">>, filter_value) >>
      [] filter_type = "pitches" -> << In(<<"pitches">>, filter_value) >>
      [] filter_type = "leads" ->
            IF filter_value = << >>
            THEN << Eq(<<"leads">>, << >>) >>
            ELSE << In(<<"leads">>, filter_value) >>
      [] filter_type = "crm_lead_ids" -> << In(<<"crm_lead_ids">>, filter_value) >>
      [] filter_type = "credit_applications" ->
            << In(<<"credit_applications">>, filter_value) >>
      [] OTHER -> << >>

RECURSIVE ClausesFrom(_, _)
\* the clauses of the items from position k on, in the order of the items
ClausesFrom(items, k) ==
    IF k > Len(items)
    THEN << >>
    ELSE ClausesOf(items[k][1], items[k][2]) \o ClausesFrom(items, k + 1)

\* the walk raises: a customer id that is no ObjectId
QueryRaises(items) ==
    \E k \in DOMAIN items :
        items[k][1] = "customer_ids" /\ InvalidCustomerId(items[k][2])

\* the outcome of a make_query that raises
QueryRaised(error) == ("$raise" :> error)

\* variant: the empty '$and' is returned as it is
make_queryKeepEmpty(items) ==
    IF QueryRaises(items) THEN QueryRaised("InvalidId")
    ELSE ("$and" :> ClausesFrom(items, 1))

\* make_query(filters), items being filters.items(): {'$and': clauses}, or {}
\* when there is no clause
make_query(items) ==
    IF QueryRaises(items)
    THEN QueryRaised("InvalidId")
    ELSE LET clauses == ClausesFrom(items, 1)
         IN  IF clauses = << >> THEN NoFields ELSE ("$and" :> clauses)

----------------------------------------------------------------------------
(* The store's find: which documents a query matches *)

\* the fields that hold a list
ArrayFields ==
    AssigneeRoles \cup {"customer_keywords", "pitches", "leads", "crm_lead_ids",
                        "credit_applications"}

HasPath(doc, path) ==
    /\ path[1] \in DOMAIN doc
    /\ Len(path) > 1 => path[2] \in DOMAIN doc[path[1]]

AtPath(doc, path) == IF Len(path) > 1 THEN doc[path[1]][path[2]] ELSE doc[path[1]]

\* the order of ObjectIds: they grow with the time of allocation
ObjectIdOrder(id) ==
    CASE id = "o1" -> 1 [] id = "o2" -> 2 [] id = "o3" -> 3 [] id = "o4" -> 4 [] OTHER -> 0

\* the store's order of the values of a field: ObjectIds for _id, numbers (times)
\* otherwise
OrderOf(field, value) == IF field = <<"_id">> THEN ObjectIdOrder(value) ELSE value

RECURSIVE MatchesClause(_, _)
\* the document satisfies the clause
MatchesClause(doc, clause) ==
    CASE clause.op = "$and" ->
            \A i \in DOMAIN clause.clauses : MatchesClause(doc, clause.clauses[i])
      [] clause.op = "$or" ->
            \E i \in DOMAIN clause.clauses : MatchesClause(doc, clause.clauses[i])
      [] clause.op = "$in" ->
            /\ HasPath(doc, clause.field)
            /\ IF clause.field[1] \in ArrayFields
               THEN Range(AtPath(doc, clause.field)) \cap Range(clause.values) # {}
               ELSE AtPath(doc, clause.field) \in Range(clause.values)
      [] clause.op = "$in/re" ->
            /\ HasPath(doc, clause.field)
            /\ \E i \in DOMAIN AtPath(doc, clause.field), k \in DOMAIN clause.patterns :
                    Searches(clause.patterns[k], Chars(AtPath(doc, clause.field)[i]))
      [] clause.op = "$size" ->
            /\ HasPath(doc, clause.field)
            /\ Len(AtPath(doc, clause.field)) = clause.n
      [] clause.op = "$eq" ->
            /\ HasPath(doc, clause.field)
            /\ AtPath(doc, clause.field) = clause.value
      [] clause.op = "$gt" ->
            /\ HasPath(doc, clause.field)
            /\ OrderOf(clause.field, AtPath(doc, clause.field))
                    > OrderOf(clause.field, clause.value)
      [] clause.op = "$lt" ->
            /\ HasPath(doc, clause.field)
            /\ OrderOf(clause.field, AtPath(doc, clause.field))
                    < OrderOf(clause.field, clause.value)
      [] clause.op = "$within" ->
            /\ HasPath(doc, clause.field)
            /\ DOMAIN clause.bounds # {}
            /\ "$gte" \in DOMAIN clause.bounds
                    => AtPath(doc, clause.field) >= clause.bounds["$gte"]
            /\ "$lte" \in DOMAIN clause.bounds
                    => AtPath(doc, clause.field) <= clause.bounds["$lte"]
      [] clause.op = "$exists" ->
            (HasPath(doc, clause.field)
                /\ Len(AtPath(doc, clause.field)) >= clause.index) = clause.flag

\* the document satisfies the query; {} matches every document
Matches(doc, query) ==
    "$and" \in DOMAIN query => MatchesClause(doc, And(query["$and"]))

\* the ids of the documents of the collection the query matches
MatchSet(docs, query) == {id \in DOMAIN docs : Matches(docs[id], query)}

\* the sequences that list every element of S once
Orderings(S) ==
    {seq \in [1..Cardinality(S) -> S] : \A i, j \in DOMAIN seq : i # j => seq[i] # seq[j]}

RECURSIVE SortsBefore(_, _, _, _)
\* document a comes strictly before document b under sort_by, a list of
\* (field, direction) pairs, compared from position k on
SortsBefore(a, b, sort_by, k) ==
    IF k > Len(sort_by)
    THEN FALSE
    ELSE LET field == << sort_by[k].field >>
             va == OrderOf(field, a[sort_by[k].field]) * sort_by[k].direction
             vb == OrderOf(field, b[sort_by[k].field]) * sort_by[k].direction
         IN  va < vb \/ (va = vb /\ SortsBefore(a, b, sort_by, k + 1))

\* cursor.sort(sort_by): the orders in which the store may return the documents
\* ids; documents that are equal under sort_by come in any order
SortedCursors(docs, ids, sort_by) ==
    {seq \in Orderings(ids) :
        \A i, j \in DOMAIN seq :
            i < j => ~SortsBefore(docs[seq[j]], docs[seq[i]], sort_by, 1)}

\* no filter_query is passed
NoQuery == NoFields

\* cursor.skip(page_size * (page - 1)).limit(page_size) when page and page_size
\* are given (None and 0 are both 0 here); the store sorts before it skips
Skipped(cursor, page, page_size) ==
    IF page # 0 /\ page_size # 0
    THEN SubSeq(cursor, page_size * (page - 1) + 1,
                IF page_size * page < Len(cursor) THEN page_size * page ELSE Len(cursor))
    ELSE cursor

\* the rest of _get_opportunities once make_query has given query: ValueError
\* on an empty query, else the cursors find({'$and': conditions}) may return,
\* sorted, and cut to the page
FindOpportunities(docs, query, sort_by, page, page_size, filter_query) ==
    LET conditions == IF DOMAIN filter_query = {}
                      THEN << And(query["$and"]) >>
                      ELSE << And(query["$and"]), And(filter_query["$and"]) >>
    IN  IF "$raise" \in DOMAIN query
        THEN [raised |-> TRUE, error |-> query["$raise"], query |-> query, cursors |-> {}]
        ELSE IF DOMAIN query = {}
        THEN [raised |-> TRUE, error |-> "ValueError", query |-> query, cursors |-> {}]
        ELSE [raised |-> FALSE, error |-> "", query |-> query,
              cursors |-> {Skipped(cursor, page, page_size) :
                            cursor \in SortedCursors(docs,
                                MatchSet(docs, ("$and" :> conditions)), sort_by)}]

\* _get_opportunities(filters, sort_by, page, page_size, filter_query), items
\* being filters.items()
_get_opportunities(docs, items, sort_by, page, page_size, filter_query) ==
    FindOpportunities(docs, make_query(items), sort_by, page, page_size, filter_query)

----------------------------------------------------------------------------
(* CursorPaginatedResults (market_crm.database), as the specification of   *)
(* the paginator describes it: the cursor key holds the sort fields and    *)
(* the identity of the last record of a page; the resume filter selects    *)
(* the records strictly after it, ties broken by the identity; the base    *)
(* set, sized at size + 1, tells whether more pages exist.                 *)

\* "strictly after value" in the direction of the sort
After_(field, value, direction) ==
    IF direction = 1 THEN Gt(<<field>>, value) ELSE Lt(<<field>>, value)

\* the resume filter of a cursor key under a one-field sort: after the key's
\* sort value, or at it and after the key's identity; none when the key does
\* not hold the sort value and the identity
filter_query(sort_by, cursor_key) ==
    LET field == sort_by[1].field
        direction == sort_by[1].direction
    IN  IF {field, "_id"} \subseteq DOMAIN cursor_key
        THEN ("$and" :>
                << Or(<< After_(field, cursor_key[field], direction),
                         And(<< Eq(<<field>>, cursor_key[field]),
                                After_("_id", cursor_key["_id"], direction) >>) >>) >>)
        ELSE NoQuery

\* the first size records of a cursor
PageOf(cursor, size) == SubSeq(cursor, 1, IF Len(cursor) < size THEN Len(cursor) ELSE size)

\* the emitted cursor key: the members of the JSON object that is written,
\* the sort fields of the record and its identity
SerializedKey(doc, sort_by) ==
    [k \in DOMAIN sort_by |-> << sort_by[k].field, doc[sort_by[k].field] >>]
        \o << << "_id", doc["_id"] >> >>

\* what the paginator gives: at most size records of the cursor that was
\* queried last (filtered, which is base when there was no resume filter),
\* whether the base set sized at size + 1 holds more than size records, and
\* the cursor key of the last record of the page
CursorPage(docs, base, filtered, sort_by, size) ==
    LET page == PageOf(filtered, size)
    IN  [results |-> page,
         has_more |-> Len(PageOf(base, size + 1)) > size,
         cursor_key |-> IF page = << >> THEN None
                        ELSE SerializedKey(docs[page[Len(page)]], sort_by)]

----------------------------------------------------------------------------
(* The rewrites of many documents: opportunities.update(qry, {'$set': ...}) *)
(* with no load of the entity, no clock read and no signal.                 *)

\* update(qry, {'$set': fields}, multi=True), ids being the documents that
\* match qry
UpdateMulti(docs, ids, fields) ==
    [id \in DOMAIN docs |-> IF id \in ids THEN DictUpdate(docs[id], fields) ELSE docs[id]]

\* the documents whose field is one of values
IdsWhere(docs, field, values) ==
    {id \in DOMAIN docs : field \in DOMAIN docs[id] /\ docs[id][field] \in values}

\* merge_customer_opportunities(merge_customer, source_customers): the
\* opportunities of the source customers go to the merge customer
merge_customer_opportunities(docs, merge_customer, source_customers) ==
    LET source_customer_ids == {source_customers[i]._id : i \in DOMAIN source_customers}
    IN  Returned(UpdateMulti(docs, IdsWhere(docs, "customer_id", source_customer_ids),
                             [customer_id |-> merge_customer._id]),
                 TRUE, << >>, << >>)

customer_keyword_fields ==
    << "first_name", "last_name", "company_name", "drivers_license", "phone",
       "work_phone", "cell_phone", "home_phone" >>

\* d.get(key, ''), for a string-valued key
GetText(d, key) == IF key \in DOMAIN d THEN d[key] ELSE ""

\* u'{} {}'.format(first_name, last_name)
CustomerName(customer) ==
    TextOf(Chars(GetText(customer, "first_name")) \o << " " >>
           \o Chars(GetText(customer, "last_name")))

NonEmptyText(text) == text # ""

\* the keyword fields of the customer and the customer's name, those that are
\* empty or missing left out, then every e-mail address
CustomerKeywords(customer) ==
    SelectSeq([k \in DOMAIN customer_keyword_fields |->
                  GetText(customer, customer_keyword_fields[k])]
              \o << CustomerName(customer) >>, NonEmptyText)
    \o (IF "emails" \in DOMAIN customer
        THEN [k \in DOMAIN customer.emails |-> customer.emails[k].email]
        ELSE << >>)

\* the delta names none of the keyword fields with a value
NoKeywordChange(delta) ==
    \A k \in DOMAIN customer_keyword_fields : ~HasText(delta, customer_keyword_fields[k])

\* update_opportunities_for_customer(customer, delta): the name and the search
\* keywords of the customer are copied to the customer's opportunities; delta
\* is << >> for None, else << the delta >>
update_opportunities_for_customer(docs, customer, delta) ==
    IF delta # << >> /\ NoKeywordChange(delta[1])
    THEN Returned(docs, FALSE, << >>, << >>)
    ELSE Returned(UpdateMulti(docs, IdsWhere(docs, "customer_id", {customer._id}),
                              [customer_name |-> Strip(CustomerName(customer)),
                               customer_keywords |-> CustomerKeywords(customer)]),
                  TRUE, << >>, << >>)

\* update_opportunities_with_dealer_name(dealer_id), dealer being what the
\* helper dealer_name(dealer_id) answers
update_opportunities_with_dealer_name(docs, dealer_id, dealer) ==
    Returned(UpdateMulti(docs, IdsWhere(docs, "dealer_id", {dealer_id}),
                         [dealer_name |-> dealer]),
             TRUE, << >>, << >>)

\* update_opportunity_with_dealer_name(opportunity): the one document with
\* the identity and the dealer of the opportunity handed in
update_opportunity_with_dealer_name(docs, opportunity, dealer) ==
    Returned(UpdateMulti(docs, IdsWhere(docs, "_id", {opportunity._id})
                               \cap IdsWhere(docs, "dealer_id", {opportunity.dealer_id}),
                         [dealer_name |-> dealer]),
             TRUE, << >>, << >>)

\* drop_opportunity_collection(): delete_many({})
drop_opportunity_collection(docs) == Returned(NoFields, TRUE, << >>, << >>)

----------------------------------------------------------------------------
(* The schemas that load the arguments of the list endpoints.  A load gives *)
(* the loaded data in a one-element sequence, or none when it raises        *)
(* ValidationError (the schemas are strict); keys a schema does not declare *)
(* are left out of the loaded data.  A JSON number is written [int |-> n],  *)
(* a JSON string [str |-> text] where a field takes both; the arguments of  *)
(* a GET request are strings.                                               *)

\* fields.Int on a JSON value: int(value)
IntField(value) ==
    IF "int" \in DOMAIN value THEN << value.int >> ELSE IntOfText(value.str)

\* fields.List(fields.Int): every element has to load
IntListField(values) ==
    IF \A i \in DOMAIN values : IntField(values[i]) # << >>
    THEN << [i \in DOMAIN values |-> IntField(values[i])[1]] >>
    ELSE << >>

\* ReportingPeriodFilterSchema: year is required, the three fields are Int
ReportingPeriodFilterSchema(data) ==
    LET kept == DOMAIN data \cap {"year", "month", "quarter"}
    IN  IF "year" \in kept /\ \A f \in kept : IntField(data[f]) # << >>
        THEN << [f \in kept |-> IntField(data[f])[1]] >>
        ELSE << >>

\* the fields OpportunitiesFilterSchema declares
FilterSchemaFields ==
    { "ids", "organization_id", "dealer_ids", "statuses", "assignees", "bdc_assignees",
      "status_date", "created", "updated", "lead_channel", "lead_direction",
      "lead_source", "sub_status", "assigned_to_bdc", "stock_type", "reporting_period",
      "keywords", "pitches", "leads", "crm_lead_ids", "credit_applications",
      "customer_ids", "created_by" }

\* those of them that are fields.Str and hold a string
TextFilterFields ==
    { "organization_id", "lead_channel", "lead_direction", "lead_source", "sub_status",
      "keywords" }

\* OpportunitiesFilterSchema.wrap_loose_reporting_period_params (pre_load): a
\* loose month, year or quarter moves under reporting_period, unless the data
\* holds a reporting_period
wrap_loose_reporting_period_params(data) ==
    LET loose == DOMAIN data \cap {"month", "year", "quarter"}
    IN  IF "reporting_period" \notin DOMAIN data /\ loose # {}
        THEN [f \in (DOMAIN data \ loose) \cup {"reporting_period"} |->
                IF f = "reporting_period" THEN [k \in loose |-> data[k]] ELSE data[f]]
        ELSE data

\* OpportunitiesFilterSchema().load(data): organization_id and dealer_ids are
\* required.  The load of the fields whose classes are not at hand
\* (ObjectIdField, DateFilterSchema) and of the other lists is left undefined
OpportunitiesFilterSchema(data) ==
    LET wrapped == wrap_loose_reporting_period_params(data)
        kept == DOMAIN wrapped \cap FilterSchemaFields
        Loaded(f) ==
            CASE f = "dealer_ids" -> IntListField(wrapped[f])
              [] f = "reporting_period" -> ReportingPeriodFilterSchema(wrapped[f])
              [] f \in TextFilterFields -> << wrapped[f] >>
    IN  IF {"organization_id", "dealer_ids"} \subseteq kept
            /\ \A f \in kept : Loaded(f) # << >>
        THEN << [f \in kept |-> Loaded(f)[1]] >>
        ELSE << >>

\* sort_by when the request names none: missing=[dict(created=-1)]
DefaultSort == << [field |-> "created", direction |-> -1] >>

\* fields.Nested(OpportunityOrderingSchema, many=True) on sort_by, which
\* json.loads gave as a list, [list |-> orderings], or as one dict,
\* [dict |-> ordering]: a value that is no list does not load.  The
\* directions are those order_validator accepts; orderings by a field the
\* schema does not declare are left undefined
OrderingsField(sort_by) ==
    IF "list" \in DOMAIN sort_by
    THEN CASE \A i \in DOMAIN sort_by.list :
                sort_by.list[i].field \in {"created", "dealer_name", "customer_name"} ->
            << sort_by.list >>
    ELSE << >>

\* OpportunitiesParamsSchema.sort_by_to_array (pre_load): a sort_by that is
\* no list becomes the list of it
sort_by_to_array(data) ==
    IF "sort_by" \in DOMAIN data /\ "list" \notin DOMAIN data.sort_by
    THEN [data EXCEPT !.sort_by = [list |-> << data.sort_by.dict >>]]
    ELSE data

\* OpportunitiesParamsSchema().load(args): page is at least 1 and page_size at
\* least 0, filters is required
OpportunitiesParamsSchema(args) ==
    LET data == sort_by_to_array(args)
        page == IF "page" \in DOMAIN data THEN IntOfText(data.page) ELSE << 1 >>
        page_size == IF "page_size" \in DOMAIN data
                     THEN IntOfText(data.page_size) ELSE << 0 >>
        sort_by == IF "sort_by" \in DOMAIN data
                   THEN OrderingsField(data.sort_by) ELSE << DefaultSort >>
        filters == IF "filters" \in DOMAIN data
                   THEN OpportunitiesFilterSchema(data.filters) ELSE << >>
    IN  IF /\ page # << >> /\ page[1] >= 1
           /\ page_size # << >> /\ page_size[1] >= 0
           /\ sort_by # << >>
           /\ filters # << >>
        THEN << [page |-> page[1], page_size |-> page_size[1],
                 sort_by |-> sort_by[1], filters |-> filters[1]] >>
        ELSE << >>

\* OpportunitiesParamsSchema(only=('filters',)).load(args)
OpportunitiesParamsSchemaOnlyFilters(args) ==
    LET filters == IF "filters" \in DOMAIN args
                   THEN OpportunitiesFilterSchema(args.filters) ELSE << >>
    IN  IF filters # << >> THEN << [filters |-> filters[1]] >> ELSE << >>

\* the fields OpportunitySchema loads: those it declares, but for the
\* dump_only ones
OpportunitySchemaFields ==
    { "_id", "customer_id", "name", "customer_name", "customer_keywords", "status",
      "sub_status", "lost_reason", "creator", "dealer_id", "dealer_name", "stock_type",
      "primary_pitch_id", "sales_managers", "sales_reps", "customer_reps", "bdc_reps",
      "finance_managers", "pitches", "leads", "crm_lead_ids", "appraisals",
      "credit_applications", "preferences", "marketing", "updated",
      "last_status_change", "created", "reporting_period", "dms_deal",
      "accounting_deal", "sales_deal", "carryover_date", "attachments",
      "gocard_referral", "rdr_punch", "finance_checklist", "accounting_checklist",
      "extra_checklist", "organization_id", "alert_types", "test_drive_number" }

RECURSIVE JsonObject(_)
\* json.loads of an object given by its members, pairs of a name and a value:
\* a later member replaces an earlier one of its name
JsonObject(members) ==
    IF members = << >>
    THEN NoFields
    ELSE DictUpdate(JsonObject(SubSeq(members, 1, Len(members) - 1)),
                    (members[Len(members)][1] :> members[Len(members)][2]))

\* OpportunityCursorSchema().loads(text, partial=True).data: the members of
\* the object that the schema loads, no field being required; the values are
\* written as their fields (ObjectIdField, NaiveDateTime) load them
OpportunityCursorSchema(text) ==
    LET data == JsonObject(text)
    IN  [f \in DOMAIN data \cap OpportunitySchemaFields |-> data[f]]

\* OpportunitiesByCursorParamsSchema.cursor_key_string_to_partial_opportunity_dict
\* (post_load)
cursor_key_string_to_partial_opportunity_dict(data) ==
    IF "cursor_key" \in DOMAIN data
    THEN [data EXCEPT !.cursor_key = OpportunityCursorSchema(data.cursor_key)]
    ELSE data

\* OpportunitiesByCursorParamsSchema().load(args): size is 100 when missing,
\* filters is required; this schema does not wrap a sort_by that is no list
OpportunitiesByCursorParamsSchema(args) ==
    LET size == IF "size" \in DOMAIN args THEN IntOfText(args.size) ELSE << 100 >>
        sort_by == IF "sort_by" \in DOMAIN args
                   THEN OrderingsField(args.sort_by) ELSE << DefaultSort >>
        filters == IF "filters" \in DOMAIN args
                   THEN OpportunitiesFilterSchema(args.filters) ELSE << >>
    IN  IF size # << >> /\ sort_by # << >> /\ filters # << >>
        THEN << cursor_key_string_to_partial_opportunity_dict(
                    DictUpdate([f \in DOMAIN args \cap {"cursor_key", "get_more"} |-> args[f]],
                               [size |-> size[1], sort_by |-> sort_by[1],
                                filters |-> filters[1]])) >>
        ELSE << >>

----------------------------------------------------------------------------
(* The list endpoints *)

\* variant: an organization_id the client supplies is kept
WithOrganizationKeepClient(filters, current_user) ==
    DictUpdate([organization_id |-> current_user.organization.id], filters)

\* args['filters'].update({'organization_id': current_user['organization']['id']})
WithOrganization(filters, current_user) ==
    DictUpdate(filters, [organization_id |-> current_user.organization.id])

\* the arguments of a GET request after the handler has put the organization
\* of the user into the filters, when there are filters
WithUser(args, current_user) ==
    IF "filters" \in DOMAIN args
    THEN DictUpdate(args, [filters |-> WithOrganization(args.filters, current_user)])
    ELSE args

\* PaginatedResults(cursor, page, page_size): the records of the page, all of
\* them when page_size is 0
PaginatedResults(cursor, page, page_size) ==
    IF page_size = 0
    THEN cursor
    ELSE LET from == page_size * (page - 1) + 1
             to == IF page_size * page < Len(cursor) THEN page_size * page ELSE Len(cursor)
         IN  SubSeq(cursor, from, to)

\* a request that ends before or after the DAO was asked, without results
Refused(status, handed, queries) ==
    [status |-> status, handed |-> handed, queries |-> queries, results |-> << >>]

\* the answer of a list endpoint: the rows, unless the caller may not read them
Listed(handed, queries, rows, can_read) ==
    IF rows # << >> /\ ~can_read
    THEN Refused("403", handed, queries)
    ELSE [status |-> "200", handed |-> handed, queries |-> queries, results |-> rows]

\* the answer of the cursor endpoint: the page with what the paginator tells
\* about the pages that follow, unless the caller may not read the rows
Dumped(handed, queries, paginated, can_read) ==
    LET listed == Listed(handed, queries, paginated.results, can_read)
    IN  IF listed.status = "200"
        THEN DictUpdate(listed, [has_more |-> paginated.has_more,
                                 cursor_key |-> paginated.cursor_key])
        ELSE listed

\* the orders in which a dict the schema has loaded may give its items
ItemsOf(filters) == {Items(filters, keys) : keys \in Orderings(DOMAIN filters)}

\* GET /opportunities once the arguments are loaded: the answers the handler
\* may give
OpportunitiesAnswers(docs, params, can_query, can_read) ==
    IF ~can_query
    THEN {Refused("403", << >>, << >>)}
    ELSE LET Answers(found) ==
                IF found.raised
                THEN {Refused(found.error, << params.filters >>, << found.query >>)}
                ELSE {Listed(<< params.filters >>, << found.query >>,
                             PaginatedResults(cursor, params.page, params.page_size),
                             can_read) : cursor \in found.cursors}
         IN  UNION {Answers(_get_opportunities(docs, items, params.sort_by, 0, 0, NoQuery)) :
                        items \in ItemsOf(params.filters)}

\* GET /opportunities: the answers the handler may give
get_opportunities(docs, args, current_user, can_query, can_read) ==
    LET loaded == OpportunitiesParamsSchema(WithUser(args, current_user))
    IN  IF loaded = << >>
        THEN {Refused("ValidationError", << >>, << >>)}
        ELSE OpportunitiesAnswers(docs, loaded[1], can_query, can_read)

\* the answers of the cursor endpoint for one order of the items of the
\* filters: base is what the first query found, filtered what the second one
\* found, which is asked when there is a resume filter
CursorAnswers(docs, params, resume, base, filtered, can_read) ==
    IF base.raised
    THEN {Refused(base.error, << params.filters >>, << base.query >>)}
    ELSE IF DOMAIN resume = {}
    THEN {Dumped(<< params.filters >>, << base.query >>,
                 CursorPage(docs, cursor, cursor, params.sort_by, params.size),
                 can_read) : cursor \in base.cursors}
    ELSE {Dumped(<< params.filters, params.filters >>, << base.query, filtered.query >>,
                 CursorPage(docs, pair[1], pair[2], params.sort_by, params.size),
                 can_read) : pair \in base.cursors \X filtered.cursors}

\* GET /opportunities-cursor once the arguments are loaded: the answers the
\* handler may give
OpportunitiesCursorAnswers(docs, params, resume, can_query, can_read) ==
    IF ~can_query
    THEN {Refused("403", << >>, << >>)}
    ELSE UNION {CursorAnswers(docs, params, resume,
                    _get_opportunities(docs, items, params.sort_by, 0, 0, NoQuery),
                    _get_opportunities(docs, items, params.sort_by, 0, 0, resume),
                    can_read) : items \in ItemsOf(params.filters)}

\* GET /opportunities-cursor: the answers the handler may give
get_opportunities_with_cursor_pagination(docs, args, current_user, can_query, can_read) ==
    LET loaded == OpportunitiesByCursorParamsSchema(WithUser(args, current_user))
    IN  IF loaded = << >>
        THEN {Refused("ValidationError", << >>, << >>)}
        ELSE OpportunitiesCursorAnswers(docs, loaded[1],
                filter_query(loaded[1].sort_by, Get(loaded[1], "cursor_key")),
                can_query, can_read)

\* POST /opportunities-bulk once the arguments are loaded: the answers the
\* handler may give
OpportunitiesBulkAnswers(docs, params, can_query, can_read) ==
    IF ~can_query
    THEN {Refused("403", << >>, << >>)}
    ELSE LET Answers(found) ==
                IF found.raised
                THEN {Refused(found.error, << params.filters >>, << found.query >>)}
                ELSE {Listed(<< params.filters >>, << found.query >>, cursor, can_read) :
                       cursor \in found.cursors}
         IN  UNION {Answers(_get_opportunities(docs, items, << >>, 0, 0, NoQuery)) :
                        items \in ItemsOf(params.filters)}

\* POST /opportunities-bulk: the answers the handler may give
get_opportunities_bulk(docs, args, current_user, can_query, can_read) ==
    IF "filters" \notin DOMAIN args
    THEN {Refused("KeyError", << >>, << >>)}
    ELSE LET loaded == OpportunitiesParamsSchemaOnlyFilters(WithUser(args, current_user))
         IN  IF loaded = << >>
             THEN {Refused("ValidationError", << >>, << >>)}
             ELSE OpportunitiesBulkAnswers(docs, loaded[1], can_query, can_read)

----------------------------------------------------------------------------
(* Inputs *)

\* S, and every patch of S extended with field f at a value of vals
Ext(S, f, vals) == S \cup {DictUpdate(p, (f :> v)) : p \in S, v \in vals}

DealerIds == {10, 20}
DealNumbers == {"D100", "D200"}
DmsDealValues == {NoFields, [vin |-> "V1"], [deal_number |-> "D200", vin |-> "V1"]}
SuppliedDates == {2}
Clock == {NoTime} \cup SuppliedDates

\* deal data synced from the DMS
DmsDealData ==
    {NoFields, [deal_type |-> "NEW"], [deal_type |-> "Used", vin |-> "V2"],
     [deal_type |-> "USED"], [deal_type |-> "New"], [deal_type |-> "UNKNOWN"],
     [deal_type |-> "LEASE"], [deal_type |-> ""], [vin |-> "V2"],
     [deal_number |-> "D200"], [deal_number |-> "D100", deal_type |-> "NEW"]}

\* patches that give an opportunity its deal number
DmsPatches ==
    {[deal_number |-> "D100"], [dms_deal |-> [deal_number |-> "D200", deal_type |-> "used"]],
     [dms_deal |-> [vin |-> "V1"]]}

\* kwargs of add_opportunity that name the organization and the dealer only
PlainKwargs == {[organization_id |-> "org1", dealer_id |-> 10]}

\* kwargs of add_opportunity
CreateKwargs ==
    Ext(Ext(Ext({NoFields}, "organization_id", {"", "org1"}), "dealer_id", {0, 10}),
        "status", {DESK})

\* patches about the deal number and the dealer (plus a status change)
DealPatches ==
    Ext(Ext(Ext(Ext({NoFields}, "deal_number", {""} \cup DealNumbers),
                "dms_deal", DmsDealValues),
            "dealer_id", DealerIds),
        "status", {FI})

\* patches about the status and the reporting period
StatusPatches ==
    Ext(Ext({NoFields}, "status", {FRESH, FI, PENDING}),
        "reporting_period", {[year |-> 2021, month |-> 11]})

\* patches carrying attachments as OpportunityUpdateSchema loads them (no _id,
\* date_created or deleted: those are dump_only), or a status
AttachmentPatches ==
    Ext(Ext({NoFields}, "attachments", {<< >>, << [key |-> "k9", label |-> "l9"] >>}),
        "status", {FI, PENDING})

\* patches that change the status, the sub-status, assignments, the dealer or
\* the deal number
EventPatches ==
    Ext(Ext(Ext(Ext(Ext(Ext({NoFields}, "status", {FI}),
                        "sub_status", {"hot"}),
                    "sales_reps", {<<"bob">>}),
                "bdc_reps", {<<"amy">>}),
            "dealer_id", {20}),
        "deal_number", {"D100"})

\* patches that only change the status
TransitionPatches == Ext({NoFields}, "status", {FI, PENDING})

\* kwargs of add_opportunity that assign users to roles
AssignmentKwargs ==
    Ext(Ext(Ext(Ext(Ext({[organization_id |-> "org1", dealer_id |-> 10]},
                        "sales_reps", {<<"bob">>}),
                    "sales_managers", {<<"amy">>}),
                "customer_reps", {<<"bob">>}),
            "bdc_reps", {<<"amy">>}),
        "finance_managers", {<<"bob">>})

\* the document add_opportunity stores under the ObjectId id at time t
StoredAs(id, kwargs, t) == NewOpportunity(id, kwargs, t)

\* kwargs of add_opportunity that name the customer, the creator, the lead
\* and what was done for the opportunity
CustomerKwargs ==
    { [organization_id |-> "org1", dealer_id |-> 10,
       customer_id |-> ObjectId("c1"), customer_keywords |-> << "Bob", "Bob Lee" >>,
       creator |-> "amy", pitches |-> << "p1" >>, leads |-> << "l1" >>,
       crm_lead_ids |-> << "x1" >>, credit_applications |-> << "a1" >>,
       marketing |-> [lead_source |-> "web", lead_channel |-> "mail",
                      lead_direction |-> "in"],
       dms_deal |-> [deal_number |-> "D100"]],
      [organization_id |-> "org1", dealer_id |-> 20,
       customer_id |-> ObjectId("c2"), customer_keywords |-> << "O'Neil" >>,
       creator |-> "bob"] }

\* customer documents
Customers ==
    { [_id |-> ObjectId("c1"), first_name |-> "Bob", last_name |-> "Lee",
       emails |-> << [email |-> "b@c1"] >>],
      [_id |-> ObjectId("c2"), last_name |-> "Lee", phone |-> ""],
      [_id |-> ObjectId("c1")] }

\* the customers merged away
SourceCustomers ==
    { << >>, << [_id |-> ObjectId("c1")] >>,
      << [_id |-> ObjectId("c1")], [_id |-> ObjectId("c2")] >> }

\* the change of a customer, if the caller hands one in
CustomerDeltas ==
    { << >>, << [first_name |-> "Bob"] >>, << [first_name |-> "", address |-> "1 Main St"] >> }

\* the answer of the helper dealer_name
DealerNames == {"Acme"}

\* the opportunities handed to update_opportunity_with_dealer_name: the
\* identity and the dealer the caller has read at some time
DealerOpportunities ==
    { [_id |-> OpportunityIds[1], dealer_id |-> d] : d \in DealerIds }
    \cup { [_id |-> UnknownId, dealer_id |-> 10] }

\* searches for a customer
CustomerFilters ==
    { [keywords |-> "bob"], [customer_ids |-> [basestring |-> "c2"]] }

\* collections of up to two opportunities with various assignments, customers
\* and creators
QueryCollections ==
    {NoFields}
    \cup {("o1" :> StoredAs("o1", k, 0)) : k \in AssignmentKwargs}
    \cup {("o1" :> StoredAs("o1", k1, 0)) @@ ("o2" :> StoredAs("o2", k2, ClockStep)) :
            k1 \in AssignmentKwargs \cup CustomerKwargs,
            k2 \in PlainKwargs \cup CustomerKwargs}

\* filter specifications
FilterSpecs ==
    { NoFields,
      [ids |-> <<"o1">>], [ids |-> <<"o2">>], [ids |-> <<"o3">>],
      [assignees |-> <<"unassigned">>], [assignees |-> <<"bob">>],
      [assignees |-> <<"amy">>], [assignees |-> <<"zoe">>],
      [bdc_assignees |-> <<"unassigned">>], [bdc_assignees |-> <<"amy">>],
      [organization_id |-> "org1", dealer_ids |-> <<10>>],
      [statuses |-> <<FRESH>>, sub_status |-> "", stock_type |-> ""],
      [assigned_to_bdc |-> TRUE],
      [reporting_period |-> [year |-> 2020, month |-> 1, quarter |-> 1]],
      [reporting_period |-> NoFields],
      [created |-> [date_from |-> ClockStep]], [updated |-> [date_to |-> 0]],
      [created |-> NoFields],
      [customer_ids |-> [basestring |-> "c1"]],
      [customer_ids |-> [basestring |-> "c1,c2"]],
      [customer_ids |-> [basestring |-> "c1,"]],
      [customer_ids |-> [list |-> << "c2" >>]],
      [lead_source |-> "web"], [lead_channel |-> "mail", lead_direction |-> "out"],
      [keywords |-> ""], [keywords |-> "BO"], [keywords |-> "bob lee"],
      [keywords |-> "'bob lee'"], [keywords |-> "lee  bob"],
      [keywords |-> "\"bob lee\""], [keywords |-> "LEE"],
      [keywords |-> "o'neil lee"], [keywords |-> "D100"],
      [organization_id |-> "org1", dealer_ids |-> <<10>>, created_by |-> << "bob" >>],
      [pitches |-> << "p1" >>], [leads |-> << >>], [leads |-> << "l1" >>],
      [crm_lead_ids |-> << "x1" >>], [credit_applications |-> << "a1", "a2" >>] }

\* the opportunity doc after update_opportunity(id, status=status) at time t
Transitioned(id, doc, status, t) ==
    update_opportunity((id :> doc), id, NoTime, [status |-> status], Still(t)).docs[id]

\* an opportunity created at time 0 and moved through up to two statuses
Histories(id) ==
    LET created == StoredAs(id, [organization_id |-> "org1", dealer_id |-> 10], 0)
        Moved == { ts \in {0, ClockStep} \X {ClockStep, 2 * ClockStep} : ts[1] <= ts[2] }
    IN  {created}
        \cup {Transitioned(id, created, FI, t) : t \in {0, ClockStep}}
        \cup {Transitioned(id, Transitioned(id, created, FI, ts[1]), to, ts[2]) :
                ts \in Moved, to \in {FRESH, PENDING}}

\* collections of two opportunities with a status history
StatusCollections ==
    {("o1" :> h1) @@ ("o2" :> h2) : h1 \in Histories("o1"), h2 \in Histories("o2")}

\* status_date filters: closed ranges, ranges open at one end, and the range
\* that names no bound
DateFilters ==
    LET Dates == {0, ClockStep, 2 * ClockStep}
    IN  {[status_date |-> [date_from |-> ab[1], date_to |-> ab[2]]] :
            ab \in {cd \in Dates \X Dates : cd[1] <= cd[2]}}
        \cup {[status_date |-> [date_from |-> ClockStep]],
              [status_date |-> [date_to |-> ClockStep]],
              [status_date |-> NoFields]}

\* the users that call the list endpoints
Users == {[organization |-> [id |-> org]] : org \in {"org1", "org2"}}

\* collections of two opportunities, of two dealers and of one or two
\* organizations
TenantCollections ==
    {("o1" :> StoredAs("o1", [organization_id |-> "org1", dealer_id |-> 10], 0))
        @@ ("o2" :> StoredAs("o2", [organization_id |-> org, dealer_id |-> 20], t)) :
        org \in {"org1", "org2"}, t \in {0, ClockStep}}

\* the dealers a client asks for, as JSON numbers
WireDealers == << [int |-> 10], [int |-> 20] >>

\* the filters a client sends, as json.loads gives them: with or without an
\* organization, its own or another one; a dealer written as a string of
\* digits, or as a word; a loose year, a loose month without a year, a
\* reporting_period; a key the schema does not declare; no dealers at all
ClientFilters ==
    { [dealer_ids |-> WireDealers],
      [dealer_ids |-> WireDealers, organization_id |-> "org1"],
      [dealer_ids |-> WireDealers, organization_id |-> "org2"],
      [dealer_ids |-> << [str |-> "10"], [int |-> 20] >>, organization_id |-> "org2"],
      [dealer_ids |-> << [str |-> "ten"] >>],
      [dealer_ids |-> WireDealers, year |-> [int |-> 2020]],
      [dealer_ids |-> WireDealers, month |-> [int |-> 1]],
      [dealer_ids |-> WireDealers, organization_id |-> "org2",
       reporting_period |-> [year |-> [int |-> 2020], month |-> [str |-> "1"]]],
      [dealer_ids |-> WireDealers, tenant |-> "org2"],
      NoFields }

\* the arguments of a list request
ClientArgs == Ext({NoFields}, "filters", ClientFilters)

\* the filters of the requests that page
OtherOrganization == [filters |-> [dealer_ids |-> WireDealers, organization_id |-> "org2"]]

\* pages, page sizes and sort orders a client sends with GET /opportunities:
\* the arguments of the query string are strings, sort_by is what json.loads
\* gives, a list of orderings or one ordering
PagedArgs ==
    ClientArgs
    \cup {DictUpdate(OtherOrganization, extra) : extra \in
            { [page |-> "1", page_size |-> "1"],
              [page |-> "+ 2", page_size |-> "1"],
              [page |-> " 20", page_size |-> "1"],
              [page |-> "0"],
              [page |-> "ten"],
              [page_size |-> "-1"],
              [sort_by |-> [list |-> << [field |-> "created", direction |-> 1] >>]],
              [sort_by |-> [dict |-> [field |-> "created", direction |-> 1]],
               page_size |-> "1"] }}

\* the cursor key of a request: the members of the JSON object its text writes
CursorKeys ==
    { << << "created", ClockStep >>, << "_id", "o2" >> >>,
      << << "_id", "o2" >>, << "created", 0 >>, << "_id", "o1" >> >>,
      << << "created", ClockStep >>, << "position", "o2" >> >> }

\* sizes, cursor keys and sort orders a client sends with
\* GET /opportunities-cursor
CursorArgs ==
    ClientArgs
    \cup {DictUpdate(OtherOrganization, extra) : extra \in
            { [size |-> "1"],
              [size |-> "2", get_more |-> "after"],
              [size |-> "ten"],
              [sort_by |-> [list |-> << [field |-> "created", direction |-> 1] >>],
               size |-> "1"],
              [sort_by |-> [dict |-> [field |-> "created", direction |-> 1]]] }}
    \cup {DictUpdate(OtherOrganization, [size |-> "1", cursor_key |-> key]) :
            key \in CursorKeys}

\* the sub-objects of a deal record that update_opportunity_deal_data merges
DealParts == {"comment", "frontend_gross", "backend_gross"}

\* data of update_opportunity_deal_data as UserDealSchema loads it: sub-objects
\* with some of their keys, one carrying its own 'updated', one empty
DealData ==
    { [comment |-> [content |-> "c1", updated_by |-> "amy"]],
      [comment |-> [content |-> "c2", updated |-> 3]],
      [comment |-> NoFields],
      [frontend_gross |-> [value |-> 100], backend_gross |-> [value |-> 7]] }

\* the field names a caller passes: the two user deal records, and the DMS one
DealFieldNames == {"sales_deal", "accounting_deal", "dms_deal"}

\* a patch that empties the sales deal record
DealRecordPatches == {[sales_deal |-> NoFields]}

\* kwargs of update_preferences: none, one key, two keys
PreferenceKwargs ==
    { NoFields, [vehicle_color |-> <<"red">>], [passenger_count_upper |-> 5],
      [vehicle_color |-> <<"blue">>, passenger_count_upper |-> 7] }

\* kwargs of update_marketing_data: one key, two keys, a key of no default
MarketingKwargs ==
    { [lead_source |-> "web"], [lead_channel |-> "phone"],
      [lead_source |-> "walk-in", campaign |-> "spring"] }

\* patches that replace the nested sub-documents
NestedPatches == {[preferences |-> NoFields], [marketing |-> [lead_source |-> "ad"]]}

\* the attachment_type, the key and the kwargs of add_attachment
FileKwargs == [attachment_type |-> "file", key |-> "k1", label |-> "l1"]

AttachmentKwargs == {FileKwargs}

\* an identity ObjectId() has not given out
CopiedId == 9

\* the attachment identities a caller asks for: those ObjectId() may have
\* given out
AttachmentIds == 1..MaxAttachments

\* a patch that moves the opportunity away from its defaults
FramePatches ==
    { [status |-> FI, sub_status |-> "hot", deal_number |-> "D100",
       sales_reps |-> <<"bob">>, dealer_id |-> 20] }

\* a patch that stores an attachment listed twice
CopiedPatches ==
    { [attachments |-> << NewAttachment(CopiedId, FileKwargs, 0),
                          NewAttachment(CopiedId, FileKwargs, 0) >>] }

\* ids a caller passes: none, the stored opportunity, an unknown one
CallIds == {"", OppId, UnknownId}

\* the patches tried with an id that names no stored opportunity
ProbePatches == {NoFields, [status |-> FI], [status |-> PENDING]}

----------------------------------------------------------------------------
(* The state machine *)

\* what the caller sees of a call: its arguments, the collection before it (pre),
\* the clock when it began (at), what its utcnow() calls give (reads), the collaborator that failed during it (failing: a
\* signal whose listener raised, or the DMS) and its outcome
CallRecord(op, id, kwargs, status_date_change, attachment_id, field_name, at, pre, result) ==
    [op |-> op, id |-> id, kwargs |-> kwargs, status_date_change |-> status_date_change,
     attachment_id |-> attachment_id, field_name |-> field_name,
     failing |-> "", at |-> at, reads |-> Still(at), pre |-> pre,
     ok |-> result.ok, error |-> result.error, wrote |-> result.wrote,
     events |-> result.events, returned |-> result.returned]

Call(op, id, kwargs, status_date_change, attachment_id, field_name, result) ==
    CallRecord(op, id, kwargs, status_date_change, attachment_id, field_name,
               now, store, result)

\* no call is being reported: the caller has taken the last outcome
NoCall ==
    CallRecord("idle", "", NoFields, NoTime, 0, "", 0, NoFields,
               Returned(NoFields, FALSE, << >>, << >>))

Idle == last = NoCall

\* the callers that run update_opportunity concurrently
Callers == {"c1", "c2"}

\* a caller that is not in a call
NotCalling ==
    [pc |-> "idle", kwargs |-> NoFields, loadedAt |-> 0, storedAt |-> 0,
     snapshot |-> NoFields, found |-> NoFields,
     result |-> Returned(NoFields, FALSE, << >>, << >>)]

\* no read is being served
NoRead == [op |-> "none"]

\* the status of opportunity OppId, if the collection holds it
StatusesOf(docs) == IF OppId \in DOMAIN docs THEN {docs[OppId].status} ELSE {}

\* every operation ends the same way: the store holds the result's documents
Finish(call, result) ==
    /\ Idle
    /\ store' = result.docs
    /\ ever' = ever \cup StatusesOf(result.docs)
    /\ last' = call
    /\ UNCHANGED <<raceVars, readVars>>

Init ==
    /\ store = NoFields
    /\ now = 0
    /\ nextOid = 0
    /\ inserted = 0
    /\ ever = {}
    /\ last = NoCall
    /\ calls = [c \in Callers |-> NotCalling]
    /\ writes = 0
    /\ request = NoRead
    /\ response = NoRead

\* the caller takes the outcome of the call; the next call can be made
Return ==
    /\ ~Idle
    /\ last' = NoCall
    /\ UNCHANGED <<store, now, idVars, ever, raceVars, readVars>>

\* time passes
Tick ==
    /\ Idle
    /\ now < MaxClock * ClockStep
    /\ now' = now + ClockStep
    /\ UNCHANGED <<store, idVars, ever, last, raceVars, readVars>>

\* add_opportunity(**kwargs) with the kwargs of K; an ObjectId() that is
\* dropped when a guard raises is never seen, so the ids count the inserts;
\* most is the number of inserts the run makes
AddOpportunity(K, most) ==
    /\ inserted < most
    /\ \E kwargs \in K :
        LET result == add_opportunity(store, OpportunityIds[inserted + 1], kwargs, now)
        IN  /\ Finish(Call("add_opportunity", "", kwargs, NoTime, 0, "", result), result)
            /\ inserted' = IF result.ok THEN inserted + 1 ELSE inserted
    /\ UNCHANGED <<now, nextOid>>

\* what the utcnow() calls of one operation can give when the clock moves by
\* step while the call runs: the first m reads come before the move, the
\* others after it.  Only a move between two of the reads the call takes
\* shows; a move before the first or after the last is a Tick before or after
\* the call
ClockReads(taken, t, step) ==
    {Still(t)} \cup
    { << t, IF m < 2 THEN t + step ELSE t, IF m < 3 THEN t + step ELSE t, t + step >> :
        m \in {k \in 1..(taken - 1) : step > 0 /\ t + step <= MaxClock * ClockStep} }

\* update_opportunity(id, status_date_change, **kwargs) with the patches of P;
\* the clock is where the last read left it
UpdateOpportunity(P, dates, step) ==
    /\ \E id \in CallIds, kwargs \in P, status_date_change \in dates :
        /\ id # OppId => kwargs \in ProbePatches /\ status_date_change = NoTime
        /\ LET taken == ReadsTaken(store, id, status_date_change, kwargs)
           IN  \E reads \in ClockReads(taken, now, step) :
                /\ LET result == update_opportunity(store, id, status_date_change, kwargs,
                                                    reads)
                   IN  Finish([Call("update_opportunity", id, kwargs, status_date_change,
                                    0, "", result) EXCEPT !.reads = reads], result)
                /\ now' = reads[4]
    /\ UNCHANGED idVars

\* update_opportunity while a listener of one of its signals raises
UpdateOpportunityListenerRaises ==
    /\ \E kwargs \in EventPatches, failing \in Signals :
        LET result == ListenerRaises(store,
                        update_opportunity(store, OppId, NoTime, kwargs, Still(now)), failing)
        IN  Finish([Call("update_opportunity", OppId, kwargs, NoTime, 0, "", result)
                        EXCEPT !.failing = failing], result)
    /\ UNCHANGED <<now, idVars>>

\* edit_deal_number(id, deal_number); the DMS answers or fails
EditDealNumber ==
    /\ \E id \in {OppId, UnknownId}, deal_number \in DealNumbers, dms_ok \in BOOLEAN :
        LET result == edit_deal_number(store, id, deal_number, dms_ok, now)
        IN  Finish([Call("edit_deal_number", id, [deal_number |-> deal_number],
                         NoTime, 0, "", result)
                        EXCEPT !.failing = IF dms_ok THEN "" ELSE "dms"], result)
    /\ UNCHANGED <<now, idVars>>

\* update_dms_deal(id, deal_data)
UpdateDmsDeal ==
    /\ \E id \in {OppId, UnknownId}, deal_data \in DmsDealData :
        LET result == update_dms_deal(store, id, deal_data, now)
        IN  Finish(Call("update_dms_deal", id, deal_data, NoTime, 0, "", result), result)
    /\ UNCHANGED <<now, idVars>>

\* set_reporting_period(opportunity_id, year, month)
SetReportingPeriod ==
    /\ \E year \in {2022}, month \in {2, 8} :
        LET result == set_reporting_period(store, OppId, year, month, now)
        IN  Finish(Call("set_reporting_period", OppId,
                        [year |-> year, month |-> month], NoTime, 0, "", result), result)
    /\ UNCHANGED <<now, idVars>>

\* add_attachment(opportunity_id, attachment_type, key, **kwargs)
AddAttachment ==
    /\ nextOid < MaxAttachments
    /\ \E id \in {OppId, UnknownId}, kwargs \in AttachmentKwargs :
        LET result == add_attachment(store, id, nextOid + 1, kwargs, now)
        IN  /\ Finish(Call("add_attachment", id, kwargs, NoTime, nextOid + 1, "", result),
                      result)
            /\ nextOid' = IF id \in DOMAIN store THEN nextOid + 1 ELSE nextOid
    /\ UNCHANGED <<now, inserted>>

\* modify_attachment(opportunity_id, attachment_id, **kwargs)
ModifyAttachment(ids) ==
    /\ \E attachment_id \in ids, kwargs \in {[label |-> "l2"]} :
        LET result == modify_attachment(store, OppId, attachment_id, kwargs, now)
        IN  Finish(Call("modify_attachment", OppId, kwargs, NoTime, attachment_id, "",
                        result), result)
    /\ UNCHANGED <<now, idVars>>

\* remove_attachment(opportunity_id, attachment_id)
RemoveAttachment(ids) ==
    /\ \E attachment_id \in ids :
        LET result == remove_attachment(store, OppId, attachment_id, now)
        IN  Finish(Call("remove_attachment", OppId, NoFields, NoTime, attachment_id, "",
                        result), result)
    /\ UNCHANGED <<now, idVars>>

\* update_preferences(id, **kwargs) with the ids of ids and the kwargs of K
UpdatePreferences(ids, K) ==
    /\ \E id \in ids, kwargs \in K :
        LET result == update_preferences(store, id, kwargs, now)
        IN  Finish(Call("update_preferences", id, kwargs, NoTime, 0, "", result), result)
    /\ UNCHANGED <<now, idVars>>

\* update_marketing_data(id, **kwargs) with the ids of ids and the kwargs of K
UpdateMarketingData(ids, K) ==
    /\ \E id \in ids, kwargs \in K :
        LET result == update_marketing_data(store, id, kwargs, now)
        IN  Finish(Call("update_marketing_data", id, kwargs, NoTime, 0, "", result),
                   result)
    /\ UNCHANGED <<now, idVars>>

\* update_opportunity_deal_data(id, data, field_name) with the data of D and the
\* field names of names
UpdateOpportunityDealData(D, names, step) ==
    /\ \E data \in D, field_name \in names :
        LET taken == DealReadsTaken(store, OppId, data, field_name)
        IN  \E reads \in ClockReads(taken, now, step) :
                /\ LET result == update_opportunity_deal_data(store, OppId, data,
                                                              field_name, reads)
                   IN  Finish([Call("update_opportunity_deal_data", OppId, data, NoTime, 0,
                                    field_name, result) EXCEPT !.reads = reads], result)
                /\ now' = reads[4]
    /\ UNCHANGED idVars

\* delete_opportunity(id)
DeleteOpportunity ==
    /\ \E id \in {OppId, OpportunityIds[2], UnknownId} :
        LET result == delete_opportunity(store, id)
        IN  Finish(Call("delete_opportunity", id, NoFields, NoTime, 0, "", result), result)
    /\ UNCHANGED <<now, idVars>>

\* merge_customer_opportunities(merge_customer, source_customers)
MergeCustomerOpportunities ==
    /\ \E merge_customer \in Customers, source_customers \in SourceCustomers :
        LET result == merge_customer_opportunities(store, merge_customer, source_customers)
        IN  Finish(Call("merge_customer_opportunities", "",
                        [merge_customer |-> merge_customer,
                         source_customers |-> source_customers],
                        NoTime, 0, "", result), result)
    /\ UNCHANGED <<now, idVars>>

\* update_opportunities_for_customer(customer, delta)
UpdateOpportunitiesForCustomer ==
    /\ \E customer \in Customers, delta \in CustomerDeltas :
        LET result == update_opportunities_for_customer(store, customer, delta)
        IN  Finish(Call("update_opportunities_for_customer", "",
                        [customer |-> customer, delta |-> delta],
                        NoTime, 0, "", result), result)
    /\ UNCHANGED <<now, idVars>>

\* update_opportunities_with_dealer_name(dealer_id)
UpdateOpportunitiesWithDealerName ==
    /\ \E dealer_id \in DealerIds, dealer \in DealerNames :
        LET result == update_opportunities_with_dealer_name(store, dealer_id, dealer)
        IN  Finish(Call("update_opportunities_with_dealer_name", "",
                        [dealer_id |-> dealer_id, dealer_name |-> dealer],
                        NoTime, 0, "", result), result)
    /\ UNCHANGED <<now, idVars>>

\* update_opportunity_with_dealer_name(opportunity)
UpdateOpportunityWithDealerName ==
    /\ \E opportunity \in DealerOpportunities, dealer \in DealerNames :
        LET result == update_opportunity_with_dealer_name(store, opportunity, dealer)
        IN  Finish(Call("update_opportunity_with_dealer_name", opportunity._id,
                        [opportunity |-> opportunity, dealer_name |-> dealer],
                        NoTime, 0, "", result), result)
    /\ UNCHANGED <<now, idVars>>

\* drop_opportunity_collection()
DropOpportunityCollection ==
    /\ LET result == drop_opportunity_collection(store)
       IN  Finish(Call("drop_opportunity_collection", "", NoFields, NoTime, 0, "", result),
                  result)
    /\ UNCHANGED <<now, idVars>>

\* patches of the concurrent callers
RacePatches ==
    { [status |-> FI], [sub_status |-> "hot"], [stock_type |-> "new"],
      [deal_number |-> "D100"], [deal_number |-> "D200"], [dealer_id |-> 20] }

\* variant: the store write sets only the fields the patch names
WrittenPatchOnly(call) ==
    [f \in DOMAIN call.kwargs \cap DOMAIN call.result.returned[1] |->
        call.result.returned[1][f]]

\* what the call hands to the store write: {"$set": dict(opportunity)}, the
\* whole entity as loaded and patched
Written(call) == call.result.returned[1]

\* a caller enters update_opportunity with a patch of P: it loads the entity
\* (found is all it sees of the collection) and works on its own copy; a call
\* that raises ends here
LoadOpportunity(c, P) ==
    /\ Idle
    /\ calls[c].pc = "idle"
    /\ writes < MaxWrites
    /\ OppId \in DOMAIN store
    /\ \E kwargs \in P :
        LET found == (OppId :> store[OppId])
            result == update_opportunity(found, OppId, NoTime, kwargs, Still(now))
        IN  calls' = [calls EXCEPT ![c] =
                [pc |-> IF result.ok THEN "loaded" ELSE "done",
                 kwargs |-> kwargs, loadedAt |-> writes, storedAt |-> 0,
                 snapshot |-> found, found |-> found, result |-> result]]
    /\ UNCHANGED <<store, now, idVars, ever, last, writes, readVars>>

\* the caller's store write, the signals that follow it and the return
StoreOpportunity(c) ==
    /\ Idle
    /\ calls[c].pc = "loaded"
    /\ store' = StoreSet(store, OppId, Written(calls[c]))
    /\ writes' = writes + 1
    /\ ever' = ever \cup StatusesOf(store')
    /\ calls' = [calls EXCEPT ![c].pc = "done", ![c].storedAt = writes + 1]
    /\ UNCHANGED <<now, idVars, last, readVars>>

\* the caller takes the outcome of its call
Retire(c) ==
    /\ calls[c].pc = "done"
    /\ calls' = [calls EXCEPT ![c] = NotCalling]
    /\ UNCHANGED <<store, now, idVars, ever, last, writes, readVars>>

\* the caller that runs add_attachment and the one that updates the
\* opportunity meanwhile
Attacher == "c1"
Updater == "c2"

\* add_attachment loads the opportunity and builds the entity it will send
LoadForAttachment ==
    /\ Idle
    /\ calls[Attacher].pc = "idle"
    /\ nextOid < MaxAttachments
    /\ OppId \in DOMAIN store
    /\ \E kwargs \in AttachmentKwargs :
        calls' = [calls EXCEPT ![Attacher] =
            [NotCalling EXCEPT
                !.pc = "attaching",
                !.kwargs = AttachedEntity(store[OppId], nextOid + 1, kwargs, now),
                !.snapshot = (OppId :> store[OppId])]]
    /\ nextOid' = nextOid + 1
    /\ UNCHANGED <<store, now, inserted, ever, last, writes, readVars>>

\* add_attachment calls update_opportunity with the entity it built:
\* update_opportunity loads the opportunity again and works on that copy up to
\* its store write; when it raises, add_attachment ends here
ReloadForAttachment ==
    /\ Idle
    /\ calls[Attacher].pc = "attaching"
    /\ LET opportunity == calls[Attacher].kwargs
           inner == update_opportunity(store, OppId, NoTime, opportunity, Still(now))
       IN  IF inner.ok
           THEN /\ calls' = [calls EXCEPT ![Attacher].pc = "persisting",
                                          ![Attacher].found = (OppId :> store[OppId]),
                                          ![Attacher].result = inner]
                /\ UNCHANGED last
           ELSE /\ calls' = [calls EXCEPT ![Attacher].pc = "done",
                                          ![Attacher].result = inner]
                /\ last' = Call("add_attachment", OppId, FileKwargs,
                                NoTime, nextOid, "", inner)
    /\ UNCHANGED <<store, now, idVars, ever, writes, readVars>>

\* the store write of that update_opportunity, its signals, and the return of
\* add_attachment
PersistAttachment ==
    /\ Idle
    /\ calls[Attacher].pc = "persisting"
    /\ LET inner == calls[Attacher].result
           result == [inner EXCEPT
                        !.docs = StoreSet(store, OppId, inner.docs[OppId]),
                        !.returned = << calls[Attacher].kwargs >>]
       IN  /\ store' = result.docs
           /\ ever' = ever \cup StatusesOf(result.docs)
           /\ last' = Call("add_attachment", OppId, FileKwargs,
                           NoTime, nextOid, "", result)
           /\ calls' = [calls EXCEPT ![Attacher].pc = "done", ![Attacher].result = result]
    /\ UNCHANGED <<now, idVars, writes, readVars>>

\* the state after the collection has been filled: docs is the collection
InitWith(docs) ==
    /\ store = docs
    /\ now = 0
    /\ nextOid = 0
    /\ inserted = Cardinality(DOMAIN docs)
    /\ ever = StatusesOf(docs)
    /\ last = NoCall
    /\ calls = [c \in Callers |-> NotCalling]
    /\ writes = 0
    /\ request = NoRead
    /\ response = NoRead

\* get_opportunities(filters=..., page=..., page_size=...):
\* list(_get_opportunities(...)), with the filter specifications of F, the
\* dict giving its items in any order, and the (page, page_size) pairs of pages
GetOpportunities(F, pages) ==
    /\ \E filters \in F, paging \in pages :
        \E items \in ItemsOf(filters) :
        LET found == _get_opportunities(store, items, << >>, paging[1], paging[2], NoQuery)
        IN  /\ request' = [op |-> "get_opportunities", filters |-> filters,
                           items |-> items, page |-> paging[1], page_size |-> paging[2]]
            /\ IF found.raised
               THEN response' = [op |-> "get_opportunities", raised |-> TRUE,
                                 error |-> found.error,
                                 query |-> found.query, results |-> << >>]
               ELSE \E cursor \in found.cursors :
                        response' = [op |-> "get_opportunities", raised |-> FALSE,
                                     error |-> "",
                                     query |-> found.query, results |-> cursor]
    /\ UNCHANGED <<store, now, idVars, ever, last, raceVars>>

\* a request to a list endpoint is answered
Answer(endpoint, args, current_user, answers) ==
    /\ request' = [op |-> "list", endpoint |-> endpoint, args |-> args,
                   current_user |-> current_user]
    /\ \E answer \in answers :
            response' = [op |-> "list", status |-> answer.status,
                         handed |-> answer.handed, queries |-> answer.queries,
                         results |-> answer.results]
    /\ UNCHANGED <<store, now, idVars, ever, last, raceVars>>

\* GET /opportunities
ListOpportunities ==
    \E args \in PagedArgs, current_user \in Users, can_query, can_read \in BOOLEAN :
        Answer("GET /opportunities", args, current_user,
               get_opportunities(store, args, current_user, can_query, can_read))

\* GET /opportunities-cursor
ListOpportunitiesWithCursor ==
    \E args \in CursorArgs, current_user \in Users, can_query, can_read \in BOOLEAN :
        Answer("GET /opportunities-cursor", args, current_user,
               get_opportunities_with_cursor_pagination(store, args, current_user,
                                                        can_query, can_read))

\* POST /opportunities-bulk
ListOpportunitiesBulk ==
    \E args \in ClientArgs, current_user \in Users, can_query, can_read \in BOOLEAN :
        Answer("POST /opportunities-bulk", args, current_user,
               get_opportunities_bulk(store, args, current_user, can_query, can_read))

\* the status engine under a running clock
Next ==
    \/ Return
    \/ Tick
    \/ AddOpportunity(PlainKwargs, FewOpportunities)
    \/ UpdateOpportunity(StatusPatches, Clock, ClockStep)
    \/ SetReportingPeriod

Spec == Init /\ [][Next]_vars

\* the deal-number and dealer rules
NextDeal ==
    \/ Return
    \/ AddOpportunity(PlainKwargs, MaxOpportunities)
    \/ UpdateOpportunity(DealPatches, {NoTime}, 0)
    \/ EditDealNumber

SpecDeal == Init /\ [][NextDeal]_vars

\* the deal data synced from the DMS
NextDms ==
    \/ Return
    \/ Tick
    \/ AddOpportunity(PlainKwargs, MaxOpportunities)
    \/ UpdateOpportunity(DmsPatches, {NoTime}, 0)
    \/ UpdateDmsDeal

SpecDms == Init /\ [][NextDms]_vars

\* the signals of update_opportunity, with listeners that return and listeners
\* that raise
NextEvents ==
    \/ Return
    \/ AddOpportunity(PlainKwargs, MaxOpportunities)
    \/ UpdateOpportunity(EventPatches, {NoTime}, 0)
    \/ UpdateOpportunityListenerRaises

SpecEvents == Init /\ [][NextEvents]_vars

\* every operation on an opportunity, with the clock standing still: the dates
\* that differ are the supplied status_date_change
NextOps ==
    \/ Return
    \/ AddOpportunity(PlainKwargs, FewOpportunities)
    \/ UpdateOpportunity(TransitionPatches, Clock, 0)
    \/ AddAttachment
    \/ ModifyAttachment(AttachmentIds)
    \/ RemoveAttachment(AttachmentIds)
    \/ UpdatePreferences({OppId}, {[vehicle_color |-> <<"red">>]})
    \/ UpdateMarketingData({OppId}, {[lead_source |-> "web"]})
    \/ UpdateOpportunityDealData({[comment |-> [content |-> "c1"]]}, {"sales_deal"}, 0)

SpecOps == Init /\ [][NextOps]_vars

\* the user deal records under a running clock
NextDealData ==
    \/ Return
    \/ Tick
    \/ AddOpportunity(PlainKwargs, FewOpportunities)
    \/ UpdateOpportunity(DealRecordPatches, {NoTime}, 0)
    \/ UpdateOpportunityDealData(DealData, DealFieldNames, ClockStep)

SpecDealData == Init /\ [][NextDealData]_vars

\* creation and deletion under a running clock
NextLife ==
    \/ Return
    \/ Tick
    \/ AddOpportunity(CreateKwargs, MaxOpportunities)
    \/ UpdateOpportunity(TransitionPatches, {NoTime}, 0)
    \/ DeleteOpportunity
    \/ DropOpportunityCollection

SpecLife == Init /\ [][NextLife]_vars

\* the rewrites for a customer or a dealer, and the searches that read them
NextCustomers ==
    \/ Return
    \/ AddOpportunity(CustomerKwargs, MaxOpportunities)
    \/ MergeCustomerOpportunities
    \/ UpdateOpportunitiesForCustomer
    \/ UpdateOpportunitiesWithDealerName
    \/ UpdateOpportunityWithDealerName
    \/ DropOpportunityCollection
    \/ GetOpportunities(CustomerFilters, {<< 0, 0 >>, << 2, 1 >>})

SpecCustomers == Init /\ [][NextCustomers]_vars

\* the nested sub-documents
NextNested ==
    \/ Return
    \/ AddOpportunity(PlainKwargs, MaxOpportunities)
    \/ UpdateOpportunity(NestedPatches, {NoTime}, 0)
    \/ UpdatePreferences({OppId, UnknownId}, PreferenceKwargs)
    \/ UpdateMarketingData({OppId, UnknownId}, MarketingKwargs)

SpecNested == Init /\ [][NextNested]_vars

\* the attachment operations on an opportunity that has been updated, under a
\* running clock
NextFrame ==
    \/ Return
    \/ Tick
    \/ AddOpportunity(PlainKwargs, FewOpportunities)
    \/ UpdateOpportunity(FramePatches, {NoTime}, 0)
    \/ AddAttachment
    \/ ModifyAttachment(AttachmentIds)
    \/ RemoveAttachment(AttachmentIds)

SpecFrame == Init /\ [][NextFrame]_vars

\* the attachment operations, also on an attachment that is stored twice
NextModify ==
    \/ Return
    \/ AddOpportunity(PlainKwargs, MaxOpportunities)
    \/ UpdateOpportunity(CopiedPatches, {NoTime}, 0)
    \/ AddAttachment
    \/ ModifyAttachment(AttachmentIds \cup {CopiedId})
    \/ RemoveAttachment(AttachmentIds \cup {CopiedId})

SpecModify == Init /\ [][NextModify]_vars

\* add_attachment interleaved with an update of the status, each at its
\* loads and at its store write
NextStale ==
    \/ Return
    \/ Tick
    \/ AddOpportunity(PlainKwargs, FewOpportunities)
    \/ LoadOpportunity(Updater, {[status |-> PENDING]})
    \/ StoreOpportunity(Updater)
    \/ Retire(Updater)
    \/ LoadForAttachment
    \/ ReloadForAttachment
    \/ PersistAttachment
    \/ Retire(Attacher)

SpecStale == Init /\ [][NextStale]_vars

\* the attachment operations, and updates whose patch carries attachments
NextAttachments ==
    \/ Return
    \/ AddOpportunity(PlainKwargs, MaxOpportunities)
    \/ UpdateOpportunity(AttachmentPatches, {NoTime}, 0)
    \/ AddAttachment
    \/ ModifyAttachment(AttachmentIds)
    \/ RemoveAttachment(AttachmentIds)

SpecAttachments == Init /\ [][NextAttachments]_vars

\* the attachment operations under a running clock
NextFiles ==
    \/ Return
    \/ Tick
    \/ AddOpportunity(PlainKwargs, MaxOpportunities)
    \/ AddAttachment
    \/ ModifyAttachment(AttachmentIds)
    \/ RemoveAttachment(AttachmentIds)

SpecFiles == Init /\ [][NextFiles]_vars

\* concurrent update_opportunity calls on the opportunity an add_opportunity
\* call has stored
InitRace == \E kwargs \in PlainKwargs : InitWith(OppId :> StoredAs(OppId, kwargs, 0))

NextRace ==
    \/ \E c \in Callers : LoadOpportunity(c, RacePatches)
    \/ \E c \in Callers : StoreOpportunity(c)
    \/ \E c \in Callers : Retire(c)

SpecRace == InitRace /\ [][NextRace]_vars

\* queries on a collection that is not written meanwhile
InitQuery == \E docs \in QueryCollections : InitWith(docs)

NextQuery == GetOpportunities(FilterSpecs, {<< 0, 0 >>})

\* status_date queries on opportunities with a status history
InitDates == \E docs \in StatusCollections : InitWith(docs)

NextDates == GetOpportunities(DateFilters, {<< 0, 0 >>})

SpecDates == InitDates /\ [][NextDates]_vars

SpecQuery == InitQuery /\ [][NextQuery]_vars

\* the list endpoints, called by users of two organizations
InitTenants == \E docs \in TenantCollections : InitWith(docs)

NextTenants ==
    \/ ListOpportunities
    \/ ListOpportunitiesWithCursor
    \/ ListOpportunitiesBulk

SpecTenants == InitTenants /\ [][NextTenants]_vars

----------------------------------------------------------------------------
(* Vocabulary of the claims: the call just made on the stored opportunity *)

\* the last call was update_opportunity on the stored opportunity
UpdatedStored ==
    /\ last.op = "update_opportunity"
    /\ last.id = OppId
    /\ OppId \in DOMAIN last.pre
    /\ OppId \in DOMAIN store

Before == last.pre[OppId]
After == store[OppId]

DealNumberOf(doc) ==
    IF HasText(doc.dms_deal, "deal_number") THEN doc.dms_deal.deal_number ELSE ""

\* the last call was a successful update_opportunity that changed the status
StatusChanged == UpdatedStored /\ last.ok /\ Before.status # After.status

\* the transition time of the last call: the supplied date, else the clock
SuppliedOrClock ==
    IF last.status_date_change = NoTime THEN last.reads[1] ELSE last.status_date_change

\* the _id values of a sequence of attachments, in order
Identities(attachments) ==
    LET HasId(i) == "_id" \in DOMAIN attachments[i]
        kept == SelectSeq([i \in DOMAIN attachments |-> i], HasId)
    IN  [k \in DOMAIN kept |-> attachments[kept[k]]._id]

\* a occurs in b, in the same relative order
IsSubsequence(a, b) ==
    \E f \in [DOMAIN a -> DOMAIN b] :
        /\ \A i \in DOMAIN a : b[f[i]] = a[i]
        /\ \A i, j \in DOMAIN a : i < j => f[i] < f[j]

----------------------------------------------------------------------------
(* C1 - a deal number, once present, is never cleared or replaced by an    *)
(* update_opportunity call, whichever fields the patch carries.            *)
(* The code lets a patch carrying dms_deal replace the whole sub-document. *)
C1_DealNumberKept ==
    (UpdatedStored /\ DealNumberOf(Before) # "")
        => DealNumberOf(After) = DealNumberOf(Before)

----------------------------------------------------------------------------
(* C2 - update_opportunity with patch deal_number = D on stored deal       *)
(* number D0, as claimed: D0 non-empty and D # D0 fails; D0 = D succeeds   *)
(* and keeps D; D0 empty succeeds and stores D.                            *)

\* the case of C2: a patch carrying deal_number, and no other way to touch the
\* deal number or to trip the dealer lock
DealNumberPatched ==
    /\ UpdatedStored
    /\ "deal_number" \in DOMAIN last.kwargs
    /\ "dms_deal" \notin DOMAIN last.kwargs
    /\ "dealer_id" \notin DOMAIN last.kwargs

C2_AsClaimed ==
    DealNumberPatched =>
        LET D == last.kwargs.deal_number
            D0 == DealNumberOf(Before)
        IN  /\ (D0 # "" /\ D # D0) => ~last.ok
            /\ (D0 # "" /\ D = D0) => (last.ok /\ DealNumberOf(After) = D)
            /\ D0 = "" => (last.ok /\ DealNumberOf(After) = D)

(* C2, amended - the same for a non-empty D; a patch whose deal_number is  *)
(* empty is treated as carrying none: the call succeeds and the stored     *)
(* deal number stays D0.  A failed call leaves the deal number D0.         *)
C2_DealNumberPatch ==
    DealNumberPatched =>
        LET D == last.kwargs.deal_number
            D0 == DealNumberOf(Before)
        IN  /\ (D # "" /\ D0 # "" /\ D # D0) => (~last.ok /\ DealNumberOf(After) = D0)
            /\ (D # "" /\ D0 = D) => (last.ok /\ DealNumberOf(After) = D)
            /\ (D # "" /\ D0 = "") => (last.ok /\ DealNumberOf(After) = D)
            /\ D = "" => (last.ok /\ DealNumberOf(After) = D0)

C2_Witness ==
    /\ DealNumberPatched
    /\ last.kwargs.deal_number = "D200"
    /\ DealNumberOf(Before) = "D100"
    /\ ~last.ok

----------------------------------------------------------------------------
(* C3 - while the stored opportunity has a deal number, an update whose    *)
(* patch carries another dealer_id fails with the dealer error whatever    *)
(* else the patch carries, and no update changes the stored dealer_id.     *)
C3_DealerLock ==
    (UpdatedStored /\ DealNumberOf(Before) # "") =>
        /\ ("dealer_id" \in DOMAIN last.kwargs
                /\ last.kwargs.dealer_id # Before.dealer_id)
            => (/\ ~last.ok
                /\ last.error =
                    "Cannot change dealer on an opportunity once it has a DMS deal number")
        /\ After.dealer_id = Before.dealer_id

C3_Witness ==
    /\ UpdatedStored
    /\ DealNumberOf(Before) # ""
    /\ "dealer_id" \in DOMAIN last.kwargs
    /\ last.kwargs.dealer_id # Before.dealer_id
    /\ DOMAIN last.kwargs # {"dealer_id"}
    /\ ~last.ok

----------------------------------------------------------------------------
(* C4 - a successful update that changes the status from S1 to S2 leaves   *)
(* last_status_change[S2] at the supplied status_date_change, or at the    *)
(* clock when none is supplied, and last_status_change[S1] as it was.      *)
C4_TransitionStamped ==
    StatusChanged =>
        /\ After.status \in DOMAIN After.last_status_change
        /\ After.last_status_change[After.status] = SuppliedOrClock
        /\ Before.status \in DOMAIN Before.last_status_change
        /\ Before.status \in DOMAIN After.last_status_change
        /\ After.last_status_change[Before.status] =
                Before.last_status_change[Before.status]

C4_Witness ==
    /\ StatusChanged
    /\ last.status_date_change # NoTime
    /\ last.status_date_change # last.at
    /\ Before.last_status_change[Before.status] # last.status_date_change

----------------------------------------------------------------------------
(* C5 - a status change to PENDING with no FI timestamp leaves PENDING and *)
(* FI at the same transition time; an existing FI timestamp is unchanged.  *)
C5_PendingBackfill ==
    (StatusChanged /\ After.status = PENDING) =>
        IF FI \in DOMAIN Before.last_status_change
        THEN /\ FI \in DOMAIN After.last_status_change
             /\ After.last_status_change[FI] = Before.last_status_change[FI]
        ELSE /\ FI \in DOMAIN After.last_status_change
             /\ After.last_status_change[FI] = SuppliedOrClock
             /\ After.last_status_change[PENDING] = SuppliedOrClock

C5_Witness ==
    /\ StatusChanged
    /\ After.status = PENDING
    /\ FI \notin DOMAIN Before.last_status_change
    /\ last.status_date_change # NoTime

----------------------------------------------------------------------------
(* C6 - last_status_change has an entry for every status the opportunity   *)
(* has ever had; no operation removes an entry, and an entry changes or    *)
(* appears only for the status a transition enters, or for FI when the     *)
(* transition enters PENDING and FI had no entry.                          *)
C6_StatusHistoryKept ==
    /\ OppId \in DOMAIN store => ever \subseteq DOMAIN After.last_status_change
    /\ (last.op \notin {"idle", "add_opportunity"}
            /\ OppId \in DOMAIN last.pre /\ OppId \in DOMAIN store) =>
        LET old == Before.last_status_change
            new == After.last_status_change
            entered == Before.status # After.status
        IN  /\ DOMAIN old \subseteq DOMAIN new
            /\ \A s \in DOMAIN new :
                (s \notin DOMAIN old \/ new[s] # old[s]) =>
                    /\ entered
                    /\ \/ s = After.status
                       \/ s = FI /\ After.status = PENDING /\ FI \notin DOMAIN old

C6_Witness ==
    /\ last.op = "remove_attachment"
    /\ last.wrote
    /\ {FRESH, FI, PENDING} \subseteq ever
    /\ After.last_status_change[FI] # After.last_status_change[PENDING]

----------------------------------------------------------------------------
(* C7 - after a successful status change whose patch carries no            *)
(* reporting_period, the stored reporting_period has the year and month of *)
(* the transition time recorded in last_status_change[new status].         *)
(* The code takes the year and month of the clock, also when a             *)
(* status_date_change is supplied.                                         *)
C7_PeriodOfTransition ==
    (StatusChanged /\ "reporting_period" \notin DOMAIN last.kwargs) =>
        /\ After.reporting_period.year = YearOf(After.last_status_change[After.status])
        /\ After.reporting_period.month = MonthOf(After.last_status_change[After.status])

----------------------------------------------------------------------------
(* C8 - after a successful update whose patch carries reporting_period     *)
(* {year, month}, the stored reporting_period is the derived triple        *)
(* {year, month, quarter}.                                                 *)
(* The code derives the triple and then overwrites it with the patch.      *)
C8_StoredPeriodDerived ==
    (UpdatedStored /\ last.ok /\ "reporting_period" \in DOMAIN last.kwargs) =>
        After.reporting_period =
            reporting_period(last.kwargs.reporting_period.year,
                             last.kwargs.reporting_period.month)

----------------------------------------------------------------------------
(* C9 - update_opportunity with an empty patch or an empty id fails: it    *)
(* raises, writes nothing to the store and emits no event.                 *)
C9_NoDataRejected ==
    (last.op = "update_opportunity" /\ (last.id = "" \/ DOMAIN last.kwargs = {})) =>
        /\ ~last.ok
        /\ last.error = "No data provided, or invalid arguments"
        /\ ~last.wrote
        /\ last.events = << >>
        /\ store = last.pre

C9_Witness ==
    /\ UpdatedStored
    /\ DOMAIN last.kwargs = {}
    /\ last.status_date_change # NoTime
    /\ ~last.ok

----------------------------------------------------------------------------
(* C10 - no operation loses an attachment: every attachment identity       *)
(* present before a call is present after it, in the same relative order.  *)
(* The code lets a patch carrying attachments replace the whole sequence.  *)
C10_AttachmentsKept ==
    (last.op \in {"update_opportunity", "add_attachment", "modify_attachment",
                  "remove_attachment"}
        /\ OppId \in DOMAIN last.pre /\ OppId \in DOMAIN store) =>
        IsSubsequence(Identities(Before.attachments), Identities(After.attachments))

----------------------------------------------------------------------------
(* C11 - add_attachment on a stored opportunity appends exactly one        *)
(* attachment at the end of the sequence: its identity is new, deleted is  *)
(* false and date_created is the clock; the attachments stored before stay *)
(* as they were, in place.  On an absent opportunity it returns nothing    *)
(* and stores nothing.                                                     *)

\* the set of _id values among a sequence of attachments
IdentitySet(attachments) ==
    {attachments[i]._id : i \in {j \in DOMAIN attachments : "_id" \in DOMAIN attachments[j]}}

C11_AttachmentAppended ==
    last.op = "add_attachment" =>
        IF last.id \in DOMAIN last.pre
        THEN LET old == last.pre[last.id].attachments
                 new == store[last.id].attachments
             IN  /\ last.ok
                 /\ Len(new) = Len(old) + 1
                 /\ SubSeq(new, 1, Len(old)) = old
                 /\ "_id" \in DOMAIN new[Len(new)]
                 /\ new[Len(new)]._id \notin IdentitySet(old)
                 /\ new[Len(new)].deleted = FALSE
                 /\ new[Len(new)].date_created = last.at
        ELSE /\ last.ok
             /\ last.returned = << >>
             /\ ~last.wrote
             /\ store = last.pre

C11_Witness ==
    /\ last.op = "add_attachment"
    /\ last.id \in DOMAIN last.pre
    /\ Len(Before.attachments) >= 1
    /\ IdentitySet(Before.attachments) # {}
    /\ last.at > 0
    /\ Before.attachments[1].date_created # last.at

----------------------------------------------------------------------------
(* C12 - remove_attachment of an existing attachment does not raise and    *)
(* leaves the attachment in the sequence with deleted = true, every other  *)
(* attachment as it was; removing an attachment that is already deleted    *)
(* leaves the stored attachments identical.                                *)

\* the last call was remove_attachment of an attachment the opportunity has
RemovedExisting ==
    /\ last.op = "remove_attachment"
    /\ OppId \in DOMAIN last.pre
    /\ HasAttachment(Before, last.attachment_id)

C12_RemoveIdempotent ==
    RemovedExisting =>
        /\ last.ok
        /\ Len(After.attachments) = Len(Before.attachments)
        /\ \A i \in DOMAIN Before.attachments :
                IF "_id" \in DOMAIN Before.attachments[i]
                        /\ Before.attachments[i]._id = last.attachment_id
                THEN After.attachments[i] =
                        DictUpdate(Before.attachments[i], [deleted |-> TRUE])
                ELSE After.attachments[i] = Before.attachments[i]
        /\ (\A i \in DOMAIN Before.attachments :
                ("_id" \in DOMAIN Before.attachments[i]
                        /\ Before.attachments[i]._id = last.attachment_id)
                    => Before.attachments[i].deleted)
            => After.attachments = Before.attachments

\* the second removal of the same attachment, another attachment present
C12_Witness ==
    /\ RemovedExisting
    /\ last.ok
    /\ Len(Before.attachments) >= 2
    /\ \E i \in DOMAIN Before.attachments :
            /\ "_id" \in DOMAIN Before.attachments[i]
            /\ Before.attachments[i]._id = last.attachment_id
            /\ Before.attachments[i].deleted
            /\ Before.attachments[i].date_created # last.at

----------------------------------------------------------------------------
(* C13 - when two update_opportunity calls load the same stored entity     *)
(* before either writes, both succeed, the stored document is the whole    *)
(* document of the later write, and a field that only the earlier call     *)
(* changed is back at its value before the two calls.                      *)

\* callers e and l have both finished, loaded before either wrote, and e wrote
\* first, l last
Raced(e, l) ==
    /\ e # l
    /\ calls[e].pc = "done" /\ calls[l].pc = "done"
    /\ calls[e].storedAt > 0 /\ calls[l].storedAt > 0
    /\ calls[e].loadedAt = calls[l].loadedAt
    /\ calls[e].storedAt = calls[e].loadedAt + 1
    /\ calls[l].storedAt = calls[e].storedAt + 1
    /\ writes = calls[l].storedAt

\* the fields whose value the call changed from the entity it loaded
ChangedBy(call) ==
    LET loaded == call.snapshot[OppId]
        written == call.result.returned[1]
    IN  {f \in DOMAIN written : f \notin DOMAIN loaded \/ written[f] # loaded[f]}

----------------------------------------------------------------------------
(* C15 - make_query of the empty filter specification is the empty query,  *)
(* which matches every opportunity; make_query of ids = [x] is a query     *)
(* that matches exactly the opportunities whose id is x.                   *)
C15_EmptyAndIds ==
    request.op = "get_opportunities" =>
        /\ DOMAIN request.filters = {} =>
                /\ DOMAIN response.query = {}
                /\ MatchSet(store, response.query) = DOMAIN store
        /\ (DOMAIN request.filters = {"ids"} /\ Len(request.filters.ids) = 1) =>
                MatchSet(store, response.query) =
                    {id \in DOMAIN store : store[id]["_id"] = request.filters.ids[1]}

C15_Witness ==
    /\ request.op = "get_opportunities"
    /\ DOMAIN request.filters = {"ids"}
    /\ request.filters.ids = <<"o2">>
    /\ DOMAIN store = {"o1", "o2"}
    /\ ~response.raised
    /\ response.results = <<"o2">>

----------------------------------------------------------------------------
(* C16 - the query of assignees = ["unassigned"] matches an opportunity    *)
(* iff all five assignment sets are empty; the query of assignees = [u],   *)
(* u a user, matches it iff u is in at least one of the five sets.         *)
(* The code asks only sales_reps, customer_reps and sales_managers to be   *)
(* empty.                                                                  *)
C16_AssigneesFilter ==
    (request.op = "get_opportunities" /\ DOMAIN request.filters = {"assignees"}
            /\ Len(request.filters.assignees) = 1) =>
        \A id \in DOMAIN store :
            (id \in MatchSet(store, response.query)) <=>
                IF request.filters.assignees[1] = "unassigned"
                THEN \A role \in AssigneeRoles : store[id][role] = << >>
                ELSE \E role \in AssigneeRoles :
                        request.filters.assignees[1] \in Range(store[id][role])

----------------------------------------------------------------------------
(* Vocabulary of the claims about signals *)

\* the positions of the events of the last call that carry the signal name
SentAt(name) == {i \in DOMAIN last.events : last.events[i].name = name}

----------------------------------------------------------------------------
(* C17 - a successful update_opportunity emits exactly one 'updated' event *)
(* carrying the entity as stored; a 'status updated' event, carrying the   *)
(* display name of the prior status, iff the status changed; a 'sub-status *)
(* updated' event iff the stored sub_status differs from the one before;   *)
(* the 'updated' event comes before the other two.                         *)
C17_LifecycleEvents ==
    (last.op = "update_opportunity" /\ last.ok) =>
        /\ Cardinality(SentAt("opportunity_updated")) = 1
        /\ \A i \in SentAt("opportunity_updated") : last.events[i].opportunity = After
        /\ IF Before.status # After.status
           THEN /\ Cardinality(SentAt("opportunity_status_updated")) = 1
                /\ \A i \in SentAt("opportunity_status_updated") :
                        last.events[i].old_opportunity_status_name
                            = status_name(Before.status)
           ELSE SentAt("opportunity_status_updated") = {}
        /\ IF Before.sub_status # After.sub_status
           THEN Cardinality(SentAt("opportunity_sub_status_updated")) = 1
           ELSE SentAt("opportunity_sub_status_updated") = {}
        /\ \A i \in SentAt("opportunity_updated"),
              j \in SentAt("opportunity_status_updated")
                        \cup SentAt("opportunity_sub_status_updated") : i < j

C17_Witness ==
    /\ last.op = "update_opportunity"
    /\ last.ok
    /\ Before.status # After.status
    /\ Before.sub_status # After.sub_status
    /\ Len(last.events) = 4

----------------------------------------------------------------------------
(* C18 - update_opportunity on a stored opportunity emits the 'assignment  *)
(* changed' event iff exactly one of the five assignment fields is in the  *)
(* patch; the event's field payload is that field alone, at its patch      *)
(* value; with no or with several assignment fields no such event is sent. *)
C18_AssignmentEvent ==
    UpdatedStored =>
        LET assignee_keys == DOMAIN last.kwargs \cap AssigneeRoles
        IN  IF Cardinality(assignee_keys) = 1
            THEN /\ Cardinality(SentAt("opportunity_assignment")) = 1
                 /\ \A i \in SentAt("opportunity_assignment") :
                        last.events[i].field = [k \in assignee_keys |-> last.kwargs[k]]
            ELSE SentAt("opportunity_assignment") = {}

C18_Witness ==
    /\ UpdatedStored
    /\ DOMAIN last.kwargs \cap AssigneeRoles = {"bdc_reps"}
    /\ "status" \in DOMAIN last.kwargs
    /\ SentAt("opportunity_assignment") = {1}
    /\ last.events[1].field = [bdc_reps |-> <<"amy">>]
    /\ last.ok

----------------------------------------------------------------------------
(* C19 - when the call to the DMS fails, edit_deal_number returns nothing  *)
(* without raising, the stored opportunity, dms_deal included, is what it  *)
(* was, and no event is emitted.                                           *)
C19_DmsFailureAbandons ==
    (last.op = "edit_deal_number" /\ last.failing = "dms") =>
        /\ last.ok
        /\ last.returned = << >>
        /\ ~last.wrote
        /\ last.events = << >>
        /\ store = last.pre

C19_Witness ==
    /\ last.op = "edit_deal_number"
    /\ last.failing = "dms"
    /\ last.id = OppId
    /\ OppId \in DOMAIN store
    /\ DealNumberOf(After) # ""
    /\ DealNumberOf(After) # last.kwargs.deal_number

----------------------------------------------------------------------------
(* C20 - when a listener fails while update_opportunity dispatches one of  *)
(* its events, the patch is persisted all the same and the update          *)
(* succeeds.                                                               *)
(* The code sends every signal unguarded: a listener that raises on the    *)
(* assignment signal stops the call before the store write, one that       *)
(* raises on a later signal makes the call fail after the write.           *)
C20_ListenerFailureHarmless ==
    (UpdatedStored /\ last.failing \in Signals) =>
        LET clean == update_opportunity(last.pre, last.id, last.status_date_change,
                                        last.kwargs, last.reads)
        IN  (clean.ok /\ \E i \in DOMAIN clean.events : clean.events[i].name = last.failing)
                => (last.ok /\ store = clean.docs)

----------------------------------------------------------------------------
(* The user deal records *)

\* the last call was update_opportunity_deal_data on the stored opportunity
\* with the name of a user deal record
DealDataStored ==
    /\ last.op = "update_opportunity_deal_data"
    /\ last.id = OppId
    /\ last.field_name \in {"sales_deal", "accounting_deal"}
    /\ OppId \in DOMAIN last.pre
    /\ OppId \in DOMAIN store

\* the sub-object part of the deal record the last call names
PartOf(doc, part) ==
    IF part \in DOMAIN doc[last.field_name] THEN doc[last.field_name][part] ELSE NoFields

\* the deal record the last call does not name
OtherDealRecord ==
    IF last.field_name = "sales_deal" THEN "accounting_deal" ELSE "sales_deal"

\* the sub-object part is stored as it was before the call
PartKept(part) ==
    /\ part \in DOMAIN After[last.field_name] <=> part \in DOMAIN Before[last.field_name]
    /\ PartOf(After, part) = PartOf(Before, part)

\* the sub-object part is the stored one with the keys of the patch, those of
\* Keys at their patch value, and updated at the clock read for the part
PartMerged(part, Keys) ==
    LET patch == last.kwargs[part]
        old == PartOf(Before, part)
        new == PartOf(After, part)
    IN  /\ DOMAIN new = DOMAIN old \cup DOMAIN patch \cup {"updated"}
        /\ \A k \in DOMAIN patch \cap Keys : new[k] = patch[k]
        /\ \A k \in DOMAIN old \ (DOMAIN patch \cup {"updated"}) : new[k] = old[k]
        /\ new.updated = last.reads[PartRead(last.kwargs, part)]

\* the keys of the user deal sub-objects (UserGrossSchema, UserDealCommentSchema)
DealKeys == {"updated_by", "updated_by_name", "updated", "value", "content"}

(* C21 - as claimed: after update_opportunity_deal_data, every sub-object   *)
(* (comment, frontend_gross, backend_gross) present in the patch is stored   *)
(* with every patch key at its patch value, every stored key the patch omits *)
(* at its old value and updated at the time of the call; the sub-objects not *)
(* named and the other deal record are unchanged.                            *)
C21_AsClaimed ==
    DealDataStored =>
        /\ \A part \in DealParts \cap DOMAIN last.kwargs : PartMerged(part, DealKeys)
        /\ \A part \in DealParts \ DOMAIN last.kwargs : PartKept(part)
        /\ After[OtherDealRecord] = Before[OtherDealRecord]

(* C21, amended - the same for every sub-object the patch carries non-empty  *)
(* and for every patch key other than updated: the updated of the patch is   *)
(* overwritten by the time of the call, and a sub-object the patch carries   *)
(* empty is left as it was, like one the patch does not name.                *)
C21_DealPartsMerged ==
    DealDataStored =>
        /\ \A part \in DealParts :
            IF part \in DOMAIN last.kwargs /\ DOMAIN last.kwargs[part] # {}
            THEN PartMerged(part, DealKeys \ {"updated"})
            ELSE PartKept(part)
        /\ After[OtherDealRecord] = Before[OtherDealRecord]

\* a comment that carries its own updated is merged over an earlier stored
\* comment with a key the patch omits, the other deal record holding a gross
C21_Witness ==
    /\ DealDataStored
    /\ "comment" \in DOMAIN last.kwargs
    /\ "updated" \in DOMAIN last.kwargs.comment
    /\ "updated_by" \in DOMAIN PartOf(Before, "comment")
    /\ PartOf(Before, "comment").updated < last.reads[1]
    /\ PartOf(After, "comment").content = "c2"
    /\ "frontend_gross" \in DOMAIN Before[OtherDealRecord]
    /\ DOMAIN Before[OtherDealRecord].frontend_gross # {}

(* C22 - update_opportunity_deal_data writes to the store and emits the      *)
(* updated event only if a sub-object (comment, frontend_gross,              *)
(* backend_gross) was supplied and changed the deal record; a call that      *)
(* changes none of them writes nothing and emits nothing.                    *)
(* The code tests the merged record, which is non-empty whenever the stored  *)
(* record is, and so writes and emits for a patch with no sub-object to      *)
(* merge.                                                                    *)
C22_DealDataWriteOnlyOnChange ==
    DealDataStored =>
        ((last.wrote \/ last.events # << >>) =>
            /\ \E part \in DealParts \cap DOMAIN last.kwargs :
                    DOMAIN last.kwargs[part] # {}
            /\ After[last.field_name] # Before[last.field_name])

----------------------------------------------------------------------------
(* Creation and deletion *)

\* d[key] is missing or empty: empty is "" for a string and 0 for a number
Missing(d, key, empty) == key \notin DOMAIN d \/ d[key] = empty

(* C23 - add_opportunity fails when organization_id or dealer_id is missing  *)
(* or empty, inserting no document and emitting no event; otherwise the      *)
(* stored entity has an id that was not in the collection, created and       *)
(* updated at the creation time, last_status_change mapping the initial      *)
(* status (FRESH when the caller gives none) to the creation time, and       *)
(* exactly one created event is emitted, carrying the entity.                *)
C23_AddOpportunity ==
    last.op = "add_opportunity" =>
        IF Missing(last.kwargs, "organization_id", "") \/ Missing(last.kwargs, "dealer_id", 0)
        THEN /\ ~last.ok
             /\ store = last.pre
             /\ last.events = << >>
        ELSE /\ last.ok
             /\ \E id \in DOMAIN store \ DOMAIN last.pre :
                    LET initial == IF "status" \in DOMAIN last.kwargs
                                   THEN last.kwargs.status ELSE FRESH
                    IN  /\ DOMAIN store = DOMAIN last.pre \cup {id}
                        /\ store[id]._id = id
                        /\ store[id].status = initial
                        /\ store[id].created = last.at
                        /\ store[id].updated = last.at
                        /\ store[id].last_status_change = (initial :> last.at)
                        /\ last.events =
                            << [name |-> "opportunity_created", opportunity |-> store[id]] >>

\* an opportunity created in a status of the caller's, after time has passed
C23_Witness ==
    /\ last.op = "add_opportunity"
    /\ last.ok
    /\ last.at > 0
    /\ "status" \in DOMAIN last.kwargs
    /\ OppId \in DOMAIN store
    /\ store[OppId].created = last.at

(* C24 - delete_opportunity on a stored opportunity removes its document,    *)
(* emits exactly one deleted event carrying the entity as it was and returns *)
(* true; on an id that names no opportunity it returns false, emits no event *)
(* and leaves the store unchanged.                                           *)
C24_DeleteOpportunity ==
    last.op = "delete_opportunity" =>
        IF last.id \in DOMAIN last.pre
        THEN /\ store = Without(last.pre, last.id)
             /\ last.events =
                    << [name |-> "opportunity_deleted", opportunity |-> last.pre[last.id]] >>
             /\ last.returned = << TRUE >>
        ELSE /\ store = last.pre
             /\ last.events = << >>
             /\ last.returned = << FALSE >>

\* an opportunity that has changed since its creation is deleted
C24_Witness ==
    /\ last.op = "delete_opportunity"
    /\ last.id \in DOMAIN last.pre
    /\ last.pre[last.id].status # FRESH
    /\ last.pre[last.id].updated > last.pre[last.id].created
    /\ last.id \notin DOMAIN store

----------------------------------------------------------------------------
(* The list query *)

(* C25 - _get_opportunities does not signal the invalid query error for an   *)
(* empty filter specification, which asks for every opportunity; it signals  *)
(* it only when a non-empty filter specification compiles to no clause.      *)
(* The code raises whenever the compiled query is empty, also for the empty  *)
(* filter specification.                                                     *)
C25_InvalidQueryOnlyForFilters ==
    (response.op = "get_opportunities" /\ response.raised
            /\ response.error = "ValueError") =>
        /\ DOMAIN request.filters # {}
        /\ DOMAIN response.query = {}

----------------------------------------------------------------------------
(* The nested sub-documents *)

\* the sub-document the last call works on
NestedField == IF last.op = "update_preferences" THEN "preferences" ELSE "marketing"

(* C26 - update_preferences and update_marketing_data merge rather than      *)
(* replace: after the call every supplied key of the sub-document has its    *)
(* supplied value and every stored key that is not supplied keeps its stored *)
(* value; on an absent opportunity they return nothing and store nothing.    *)
C26_NestedMerged ==
    last.op \in {"update_preferences", "update_marketing_data"} =>
        IF last.id \in DOMAIN last.pre
        THEN LET old == last.pre[last.id][NestedField]
                 new == store[last.id][NestedField]
             IN  /\ last.ok
                 /\ \A k \in DOMAIN last.kwargs : k \in DOMAIN new /\ new[k] = last.kwargs[k]
                 /\ \A k \in DOMAIN old \ DOMAIN last.kwargs :
                        k \in DOMAIN new /\ new[k] = old[k]
        ELSE /\ last.returned = << >>
             /\ store = last.pre
             /\ ~last.wrote
             /\ last.events = << >>

\* one key is supplied while the other stored key is not at its default
C26_Witness ==
    /\ last.op = "update_preferences"
    /\ last.id \in DOMAIN last.pre
    /\ DOMAIN last.kwargs = {"vehicle_color"}
    /\ DOMAIN last.pre[last.id].preferences # {}
    /\ last.pre[last.id].preferences.vehicle_color # last.kwargs.vehicle_color
    /\ last.pre[last.id].preferences.passenger_count_upper = 5
    /\ store[last.id].preferences.passenger_count_upper = 5

----------------------------------------------------------------------------
(* The delta and the failures of update_opportunity *)

\* the delta carried by the updated event of the last call
UpdatedDelta ==
    LET i == CHOOSE j \in SentAt("opportunity_updated") : TRUE
    IN  last.events[i].delta

\* the field-level difference of the stored entity over the patch fields
FieldDiff ==
    LET changed == {f \in DOMAIN last.kwargs \cap DOMAIN After :
                        f \notin DOMAIN Before \/ After[f] # Before[f]}
    IN  [f \in changed |->
            [old |-> IF f \in DOMAIN Before THEN << Before[f] >> ELSE << >>,
             new |-> After[f]]]

\* the two errors update_opportunity raises after it has loaded the entity
DealerError == "Cannot change dealer on an opportunity once it has a DMS deal number"
DealNumberError == "Opportunity already has a DMS deal number assigned!"

\* the last call was update_opportunity, its listeners returned, and it failed
\* on the dealer lock or on a deal-number conflict
FailedOnDeal ==
    /\ UpdatedStored
    /\ last.failing = ""
    /\ last.error \in {DealerError, DealNumberError}

(* C27 - the delta of the updated event of update_opportunity is the         *)
(* field-level difference between the entity before the call and after it:   *)
(* it holds a patch field exactly when the value after differs from the      *)
(* value before the call, with that old value and the new one; it is empty   *)
(* when the update changes nothing.                                          *)
(* The code computes the delta against the entity it has already changed in  *)
(* place: the old value of reporting_period is the one derived from the      *)
(* patch.                                                                    *)
C27_DeltaIsDiff ==
    (UpdatedStored /\ last.ok) => UpdatedDelta = FieldDiff

(* C28 - every event of update_opportunity (assignment, updated, status      *)
(* updated, sub-status updated) is emitted only after the entity is written  *)
(* to the store; a call that fails on the dealer lock or on a deal-number    *)
(* conflict emits no event.                                                  *)
(* The code sends the assignment event before the two checks and before the  *)
(* store write.                                                              *)
C28_EventsAfterPersist ==
    (UpdatedStored /\ last.failing = "") =>
        /\ last.events # << >> => last.wrote
        /\ FailedOnDeal => last.events = << >>

(* C29 - when update_opportunity fails on the dealer lock or on a            *)
(* deal-number conflict, the stored document is what it was before the call, *)
(* also when the patch changes the status or other fields.                   *)
C29_FailureLeavesStore ==
    FailedOnDeal => (store = last.pre /\ ~last.wrote)

\* a failed call whose patch also changes the status
C29_Witness ==
    /\ FailedOnDeal
    /\ "status" \in DOMAIN last.kwargs
    /\ last.kwargs.status # Before.status
    /\ After.status = Before.status
    /\ After.last_status_change = Before.last_status_change

(* C30 - in every interleaving of two update_opportunity calls on one        *)
(* opportunity, a stored non-empty deal number is never replaced by another  *)
(* value: two concurrent calls that set different deal numbers on an         *)
(* opportunity without one cannot both succeed.                              *)
(* The code checks the deal number on the entity each call loaded, so both   *)
(* calls pass the check and the later write replaces the earlier number.     *)
C30_DealNumberStable ==
    [][ (OppId \in DOMAIN store /\ DealNumberOf(store[OppId]) # "")
            => /\ OppId \in DOMAIN store'
               /\ DealNumberOf(store'[OppId]) = DealNumberOf(store[OppId]) ]_vars

----------------------------------------------------------------------------
(* The status_date filter *)

\* time t lies in the date range, whose bounds are inclusive
InDates(t, dates) ==
    /\ "date_from" \in DOMAIN dates => dates.date_from <= t
    /\ "date_to" \in DOMAIN dates => t <= dates.date_to

\* the last read was a list query with the status_date filter alone
StatusDateQueried ==
    /\ response.op = "get_opportunities"
    /\ DOMAIN request.filters = {"status_date"}

(* C31 - the status_date filter, given a range that names a bound, matches   *)
(* an opportunity if and only if the time recorded in last_status_change for *)
(* its current status lies in the date range; the times recorded for other   *)
(* statuses never make it match.                                             *)
C31_StatusDateFilter ==
    (StatusDateQueried /\ DOMAIN request.filters.status_date # {}) =>
        /\ ~response.raised
        /\ \A id \in DOMAIN store :
                id \in Range(response.results) <=>
                    InDates(store[id].last_status_change[store[id].status],
                            request.filters.status_date)

\* an opportunity back in FRESH whose FI date is in the range while its FRESH
\* date is not is left out, and the other opportunity is listed
C31_Witness ==
    /\ StatusDateQueried
    /\ store["o1"].status = FRESH
    /\ FI \in DOMAIN store["o1"].last_status_change
    /\ InDates(store["o1"].last_status_change[FI], request.filters.status_date)
    /\ ~InDates(store["o1"].last_status_change[FRESH], request.filters.status_date)
    /\ response.results = << "o2" >>

----------------------------------------------------------------------------
(* The frame of the attachment operations *)

\* the last call was an attachment operation on the stored opportunity
AttachmentCalled ==
    /\ last.op \in {"add_attachment", "modify_attachment", "remove_attachment"}
    /\ last.id = OppId
    /\ OppId \in DOMAIN last.pre
    /\ OppId \in DOMAIN store

(* C32 - modify_attachment merges the supplied fields into the attachment    *)
(* with the given identity only: every other attachment and the order of the *)
(* sequence are unchanged; when the opportunity has no attachment with that  *)
(* identity it returns nothing, stores nothing and emits no event.           *)
C32_ModifyOneAttachment ==
    last.op = "modify_attachment" =>
        IF OppId \in DOMAIN last.pre /\ HasAttachment(Before, last.attachment_id)
        THEN /\ last.ok
             /\ DOMAIN After.attachments = DOMAIN Before.attachments
             /\ \A i \in DOMAIN Before.attachments :
                    LET old == Before.attachments[i]
                        new == After.attachments[i]
                    IN  IF old._id = last.attachment_id
                        THEN /\ DOMAIN new = DOMAIN old \cup DOMAIN last.kwargs
                             /\ \A k \in DOMAIN last.kwargs : new[k] = last.kwargs[k]
                             /\ \A k \in DOMAIN old \ DOMAIN last.kwargs : new[k] = old[k]
                        ELSE new = old
        ELSE /\ last.returned = << >>
             /\ store = last.pre
             /\ ~last.wrote
             /\ last.events = << >>

\* the second of two attachments gets a new label
C32_Witness ==
    /\ last.op = "modify_attachment"
    /\ AttachmentCalled
    /\ Len(Before.attachments) = 2
    /\ last.attachment_id = 2
    /\ Before.attachments[2].label # After.attachments[2].label
    /\ After.attachments[1] = Before.attachments[1]

(* C34 - run one after another, add_attachment, modify_attachment and        *)
(* remove_attachment change no stored field other than attachments: status,  *)
(* last_status_change, dealer_id, dms_deal, reporting_period, the assignment *)
(* sets and updated keep their values, and no assignment, status updated or  *)
(* sub-status updated event is emitted.                                      *)
C34_AttachmentFrame ==
    AttachmentCalled =>
        /\ \A f \in DOMAIN Before \cup DOMAIN After :
                f # "attachments" =>
                    (f \in DOMAIN Before /\ f \in DOMAIN After /\ After[f] = Before[f])
        /\ \A i \in DOMAIN last.events : last.events[i].name = "opportunity_updated"

\* an attachment is added, later than the last update, to an opportunity with
\* a deal number, an assignee and a status other than FRESH
C34_Witness ==
    /\ AttachmentCalled
    /\ last.op = "add_attachment"
    /\ Len(After.attachments) = Len(Before.attachments) + 1
    /\ Before.status = FI
    /\ DealNumberOf(Before) # ""
    /\ Before.sales_reps # << >>
    /\ last.at > Before.updated
    /\ last.events # << >>

----------------------------------------------------------------------------
(* Updates that are no transition *)

\* the last call was a successful update_opportunity whose patch carries no
\* status, or the stored one
NoTransition ==
    /\ UpdatedStored
    /\ last.ok
    /\ "status" \in DOMAIN last.kwargs => last.kwargs.status = Before.status

(* C33 - an update_opportunity whose patch carries no status, or the stored  *)
(* status, is no transition: last_status_change is unchanged, the            *)
(* reporting_period is not recomputed from the clock (it changes only when   *)
(* the patch carries one) and no status updated event is emitted.            *)
C33_NoTransition ==
    NoTransition =>
        /\ After.status = Before.status
        /\ After.last_status_change = Before.last_status_change
        /\ "reporting_period" \notin DOMAIN last.kwargs =>
                After.reporting_period = Before.reporting_period
        /\ SentAt("opportunity_status_updated") = {}

\* a patch that carries the stored status, in a later month than the one of
\* the stored reporting_period
C33_Witness ==
    /\ NoTransition
    /\ DOMAIN last.kwargs = {"status"}
    /\ reporting_period(YearOf(last.reads[2]), MonthOf(last.reads[3])) # Before.reporting_period
    /\ Before.last_status_change[Before.status] < last.reads[1]

----------------------------------------------------------------------------
(* add_attachment on a stale entity *)

\* the entity add_attachment had loaded
LoadedForAttachment == calls[Attacher].snapshot[OppId]

\* the entity the update_opportunity within add_attachment had loaded
FoundForAttachment == calls[Attacher].found[OppId]

\* the last call was an add_attachment that persisted after another call had
\* changed the stored status
AttachedStale ==
    /\ last.op = "add_attachment"
    /\ calls[Attacher].pc = "done"
    /\ OppId \in DOMAIN last.pre
    /\ LoadedForAttachment.status # Before.status

(* C35 - as claimed: if add_attachment loads an opportunity, another         *)
(* update_opportunity then changes its status and stores it, and             *)
(* add_attachment then persists, the stored status is back at the one        *)
(* add_attachment had loaded, last_status_change of that status is stamped   *)
(* with the current time, and a status updated event is emitted.             *)
C35_AsClaimed ==
    AttachedStale =>
        /\ last.ok
        /\ After.status = LoadedForAttachment.status
        /\ After.last_status_change[After.status] = last.at
        /\ \E i \in SentAt("opportunity_status_updated") :
                last.events[i].old_opportunity_status_name = status_name(Before.status)

(* C35, amended - in that interleaving the stored status is back at the one  *)
(* add_attachment had loaded; the stamp of the current time is overwritten   *)
(* by the patch, so the stored last_status_change, like every field other    *)
(* than attachments, is the one add_attachment had loaded.  A status updated *)
(* event is emitted, naming the status the other call had stored, when the   *)
(* other call stored before the update_opportunity within add_attachment     *)
(* loaded the opportunity; when it stored after that load, none is emitted.  *)
C35_StaleAttachmentReverts ==
    AttachedStale =>
        /\ last.ok
        /\ After.status = LoadedForAttachment.status
        /\ After.last_status_change = LoadedForAttachment.last_status_change
        /\ \A f \in DOMAIN LoadedForAttachment \ {"attachments"} :
                After[f] = LoadedForAttachment[f]
        /\ IF FoundForAttachment.status # LoadedForAttachment.status
           THEN \E i \in SentAt("opportunity_status_updated") :
                    last.events[i].old_opportunity_status_name =
                        status_name(FoundForAttachment.status)
           ELSE SentAt("opportunity_status_updated") = {}

\* the status had been entered before the load, time has passed since, and the
\* other call stored before the update_opportunity within add_attachment loaded
C35_Witness ==
    /\ AttachedStale
    /\ LoadedForAttachment.last_status_change[LoadedForAttachment.status] < last.at
    /\ Before.status = PENDING
    /\ FoundForAttachment.status = PENDING
    /\ SentAt("opportunity_status_updated") # {}
    /\ Len(After.attachments) = 1

\* the other call stored between that load and the store write of
\* add_attachment: the status is back without a status updated event
C35_Silent ==
    /\ AttachedStale
    /\ Before.status = PENDING
    /\ FoundForAttachment.status = LoadedForAttachment.status
    /\ After.status = LoadedForAttachment.status
    /\ SentAt("opportunity_status_updated") = {}

\* an update_opportunity that loaded before add_attachment ran and stored after
\* it: the attachment add_attachment had stored is gone
C35_AttachmentLost ==
    /\ calls[Attacher].pc = "done"
    /\ calls[Attacher].result.ok
    /\ calls[Updater].pc = "done"
    /\ Idle
    /\ OppId \in DOMAIN store
    /\ store[OppId].attachments = << >>

----------------------------------------------------------------------------
(* The dealer and the deal number in one patch *)

\* the last call was update_opportunity on an opportunity without a deal
\* number, its patch carrying another dealer and a deal number
DealerAndDealNumber ==
    /\ UpdatedStored
    /\ DealNumberOf(Before) = ""
    /\ "dealer_id" \in DOMAIN last.kwargs
    /\ last.kwargs.dealer_id # Before.dealer_id
    /\ HasText(last.kwargs, "deal_number")

(* C36 - on an opportunity with no deal number, an update_opportunity patch  *)
(* carrying both another dealer_id and a deal_number succeeds and stores     *)
(* both: the dealer lock looks at the deal number present before the patch.  *)
(* The call succeeds and stores the dealer, but a patch that also carries    *)
(* dms_deal stores that sub-document in place of the deal number (as in C1). *)
C36_DealerWithDealNumber ==
    DealerAndDealNumber =>
        /\ last.ok
        /\ After.dealer_id = last.kwargs.dealer_id
        /\ DealNumberOf(After) = last.kwargs.deal_number

----------------------------------------------------------------------------
(* The deal-number edit *)

\* the last call was edit_deal_number on the stored opportunity and the DMS
\* answered
DealNumberEdited ==
    /\ last.op = "edit_deal_number"
    /\ last.id = OppId
    /\ last.failing = ""
    /\ OppId \in DOMAIN last.pre
    /\ OppId \in DOMAIN store

(* C37 - when the DMS call succeeds, edit_deal_number stores dms_deal =      *)
(* {deal_number: the new number} whatever the opportunity held before: a     *)
(* different deal number is replaced without error and every other stored    *)
(* field of dms_deal is discarded.                                           *)
C37_EditReplacesDmsDeal ==
    DealNumberEdited =>
        /\ last.ok
        /\ After.dms_deal = [deal_number |-> last.kwargs.deal_number]
        /\ last.returned = << After >>

\* the opportunity held another deal number and a further dms_deal field
C37_Witness ==
    /\ DealNumberEdited
    /\ DealNumberOf(Before) # ""
    /\ DealNumberOf(Before) # last.kwargs.deal_number
    /\ "vin" \in DOMAIN Before.dms_deal
    /\ "vin" \notin DOMAIN After.dms_deal

----------------------------------------------------------------------------
(* The deal data synced from the DMS *)

\* the last call was update_dms_deal on the stored opportunity
DmsDealCalled ==
    /\ last.op = "update_dms_deal"
    /\ last.id = OppId
    /\ OppId \in DOMAIN last.pre

\* the deal type of a dms_deal, lower-cased
LoweredDealType(dms_deal) ==
    IF "deal_type" \in DOMAIN dms_deal THEN lower(dms_deal.deal_type) ELSE ""

(* C38 - update_dms_deal fails without modifying the stored opportunity when *)
(* the opportunity has no deal number or when deal_data contains             *)
(* deal_number; on success it merges deal_data into dms_deal keeping         *)
(* deal_number unchanged, and sets stock_type to the lower-cased deal_type   *)
(* when that is a known stock type and to UNKNOWN otherwise.                 *)
C38_UpdateDmsDeal ==
    DmsDealCalled =>
        IF DealNumberOf(Before) = "" \/ "deal_number" \in DOMAIN last.kwargs
        THEN /\ ~last.ok
             /\ store = last.pre
        ELSE /\ last.ok
             /\ After.dms_deal = DictUpdate(Before.dms_deal, last.kwargs)
             /\ DealNumberOf(After) = DealNumberOf(Before)
             /\ After.stock_type =
                    IF LoweredDealType(After.dms_deal) \in {"new", "used", "unknown"}
                    THEN LoweredDealType(After.dms_deal)
                    ELSE "unknown"

\* a deal type spelled in upper case became the stock type
C38_Witness ==
    /\ DmsDealCalled
    /\ last.ok
    /\ "deal_type" \in DOMAIN last.kwargs
    /\ last.kwargs.deal_type = "NEW"
    /\ After.stock_type = "new"
    /\ Before.stock_type # "new"

\* a call refused for a deal_data carrying deal_number, on an opportunity that
\* has a deal number
C38_Refused ==
    /\ DmsDealCalled
    /\ DealNumberOf(Before) # ""
    /\ "deal_number" \in DOMAIN last.kwargs
    /\ ~last.ok

----------------------------------------------------------------------------
(* The organization of the caller *)

\* a list endpoint has answered
ListAnswered == response.op = "list"

\* the organization of the user who sent the request
CallerOrganization == request.current_user.organization.id

\* the query holds the clause organization_id == org
HasOrganizationClause(query, org) ==
    /\ "$and" \in DOMAIN query
    /\ \E i \in DOMAIN query["$and"] :
            query["$and"][i] = Eq(<<"organization_id">>, org)

(* C39 - for the list endpoints (GET /opportunities, GET                     *)
(* /opportunities-cursor, POST /opportunities-bulk) the filters handed to    *)
(* the DAO always carry organization_id equal to the calling user's          *)
(* organization, overriding any organization_id the client supplied, so      *)
(* every compiled query contains the clause organization_id == caller's      *)
(* organization and no result belongs to another organization.  The          *)
(* filters handed to the DAO are those the schema has loaded.                *)
C39_CallerOrganizationOnly ==
    ListAnswered =>
        /\ \A i \in DOMAIN response.handed :
                /\ "organization_id" \in DOMAIN response.handed[i]
                /\ response.handed[i].organization_id = CallerOrganization
        /\ \A i \in DOMAIN response.queries :
                HasOrganizationClause(response.queries[i], CallerOrganization)
        /\ \A i \in DOMAIN response.results :
                store[response.results[i]].organization_id = CallerOrganization

\* the client asked for another organization, whose opportunity the other
\* filters match, and was answered with the rows of the caller's organization
C39_Witness ==
    /\ ListAnswered
    /\ response.status = "200"
    /\ "filters" \in DOMAIN request.args
    /\ "organization_id" \in DOMAIN request.args.filters
    /\ request.args.filters.organization_id # CallerOrganization
    /\ response.results # << >>
    /\ \E id \in DOMAIN store :
            /\ store[id].organization_id = request.args.filters.organization_id
            /\ store[id].dealer_id \in Range(response.handed[1].dealer_ids)
====
